---- MODULE Spec2Model ----
(***************************************************************************)
(* Model of the Celebration House booking API (src/server.js): the         *)
(* bookings table behind a connection pool, the executor queryWithRetry,   *)
(* and the route handlers that validate a request, build a statement and   *)
(* answer with a status code.  The route tables and the SIGTERM handlers   *)
(* of the older copies of the server (src/unnamed/part_000 .. part_004)    *)
(* are modelled next to those of server.js.                                *)
(*                                                                         *)
(* Each in-flight request is a slot of Procs.  A handler runs atomically   *)
(* between two suspension points (await pool.query, await setTimeout), as  *)
(* it does on the single-threaded event loop.                              *)
(***************************************************************************)
EXTENDS Integers, Sequences, FiniteSets, TLC

VARIABLES bookings, nextId, pc, req, stmt, call, loc, resp, ping, conns,
          variant, proc

vars == <<bookings, nextId, pc, req, stmt, call, loc, resp, ping, conns,
          variant, proc>>

-----------------------------------------------------------------------------
(* Bounds of the model.                                                    *)

\* requests that may be in flight at the same time
NumProcs == 2
\* rows one run may insert into the table
MaxInserts == 2
\* keep-alive queries that may be outstanding at the same time
MaxPings == 1
\* HTTP connections clients may hold open at the same time
MaxOpen == 2

Procs == 1..NumProcs

-----------------------------------------------------------------------------
(* JavaScript values: strings are sequences of one-character strings.      *)

Undefined == [t |-> "undefined", s |-> <<>>, n |-> 0]
Null == [t |-> "null", s |-> <<>>, n |-> 0]
Str(s) == [t |-> "string", s |-> s, n |-> 0]
Num(n) == [t |-> "number", s |-> <<>>, n |-> n]

\* !v is FALSE exactly for the truthy values
Truthy(v) ==
    CASE v.t = "undefined" -> FALSE
      [] v.t = "null" -> FALSE
      [] v.t = "string" -> v.s # <<>>
      [] v.t = "number" -> v.n # 0

DigitChars == <<"0", "1", "2", "3", "4", "5", "6", "7", "8", "9">>

IsDigit(c) == \E d \in 1..10 : DigitChars[d] = c

RECURSIVE ToDecimal(_)
\* String(n) for a non-negative integer n
ToDecimal(n) ==
    IF n < 10 THEN <<DigitChars[n + 1]>>
    ELSE Append(ToDecimal(n \div 10), DigitChars[(n % 10) + 1])

\* the string a regular expression's test() sees for a value
ToStr(v) ==
    CASE v.t = "string" -> v.s
      [] v.t = "number" -> ToDecimal(v.n)
      [] v.t = "undefined" -> <<"u", "n", "d", "e", "f", "i", "n", "e", "d">>
      [] v.t = "null" -> <<"n", "u", "l", "l">>

\* s.padStart(w, c)
PadStart(s, w, c) ==
    IF Len(s) >= w THEN s ELSE [i \in 1..(w - Len(s)) |-> c] \o s

\* s.slice(0, k)
SliceTo(s, k) == SubSeq(s, 1, IF Len(s) < k THEN Len(s) ELSE k)

\* hay.includes(needle)
Includes(hay, needle) ==
    \E i \in 1..(Len(hay) - Len(needle) + 1) :
        SubSeq(hay, i, i + Len(needle) - 1) = needle

UpperChars ==
    <<"A", "B", "C", "D", "E", "F", "G", "H", "I", "J", "K", "L", "M", "N",
      "O", "P", "Q", "R", "S", "T", "U", "V", "W", "X", "Y", "Z">>

LowerChars ==
    <<"a", "b", "c", "d", "e", "f", "g", "h", "i", "j", "k", "l", "m", "n",
      "o", "p", "q", "r", "s", "t", "u", "v", "w", "x", "y", "z">>

\* s.toLowerCase()
ToLowerCase(s) ==
    [i \in 1..Len(s) |->
        IF \E k \in 1..26 : UpperChars[k] = s[i]
        THEN LowerChars[CHOOSE k \in 1..26 : UpperChars[k] = s[i]]
        ELSE s[i]]

-----------------------------------------------------------------------------
(* The statement texts of the handlers, whitespace runs written as one     *)
(* blank.                                                                  *)

FilterSqlBase ==
    <<"S", "E", "L", "E", "C", "T", " ", "i", "d", ",", " ", "u", "n", "i",
      "q", "u", "e", "I", "d", ",", " ", "c", "u", "s", "t", "o", "m", "e",
      "r", "N", "a", "m", "e", ",", " ", "c", "o", "n", "t", "a", "c", "t",
      "N", "u", "m", "b", "e", "r", ",", " ", "D", "A", "T", "E", "_", "F",
      "O", "R", "M", "A", "T", "(", "e", "v", "e", "n", "t", "D", "a", "t",
      "e", ",", " ", "'", "%", "d", "-", "%", "m", "-", "%", "Y", "'", ")",
      " ", "A", "S", " ", "e", "v", "e", "n", "t", "D", "a", "t", "e", ",",
      " ", "T", "I", "M", "E", "_", "F", "O", "R", "M", "A", "T", "(", "e",
      "v", "e", "n", "t", "T", "i", "m", "e", ",", " ", "'", "%", "H", ":",
      "%", "i", "'", ")", " ", "A", "S", " ", "e", "v", "e", "n", "t", "T",
      "i", "m", "e", ",", " ", "b", "r", "a", "n", "c", "h", ",", " ", "s",
      "e", "l", "e", "c", "t", "e", "d", "P", "a", "c", "k", "a", "g", "e",
      ",", " ", "a", "m", "o", "u", "n", "t", ",", " ", "c", "e", "l", "e",
      "b", "r", "a", "t", "i", "o", "n", "T", "y", "p", "e", " ", "F", "R",
      "O", "M", " ", "b", "o", "o", "k", "i", "n", "g", "s", " ", "W", "H",
      "E", "R", "E", " ", "1", "=", "1">>

FragDate ==
    <<" ", "A", "N", "D", " ", "e", "v", "e", "n", "t", "D", "a", "t", "e",
      " ", "=", " ", "?">>

FragMonthYear ==
    <<" ", "A", "N", "D", " ", "M", "O", "N", "T", "H", "(", "e", "v", "e",
      "n", "t", "D", "a", "t", "e", ")", " ", "=", " ", "?", " ", "A", "N",
      "D", " ", "Y", "E", "A", "R", "(", "e", "v", "e", "n", "t", "D", "a",
      "t", "e", ")", " ", "=", " ", "?">>

FragBranch ==
    <<" ", "A", "N", "D", " ", "b", "r", "a", "n", "c", "h", " ", "=", " ",
      "?">>

InsertSql ==
    <<"I", "N", "S", "E", "R", "T", " ", "I", "N", "T", "O", " ", "b", "o",
      "o", "k", "i", "n", "g", "s", " ", "(", "c", "u", "s", "t", "o", "m",
      "e", "r", "N", "a", "m", "e", ",", " ", "c", "o", "n", "t", "a", "c",
      "t", "N", "u", "m", "b", "e", "r", ",", " ", "e", "v", "e", "n", "t",
      "D", "a", "t", "e", ",", " ", "e", "v", "e", "n", "t", "T", "i", "m",
      "e", ",", " ", "b", "r", "a", "n", "c", "h", ",", " ", "s", "e", "l",
      "e", "c", "t", "e", "d", "P", "a", "c", "k", "a", "g", "e", ",", " ",
      "a", "m", "o", "u", "n", "t", ",", " ", "c", "e", "l", "e", "b", "r",
      "a", "t", "i", "o", "n", "T", "y", "p", "e", ")", " ", "V", "A", "L",
      "U", "E", "S", " ", "(", "?", ",", " ", "?", ",", " ", "?", ",", " ",
      "?", ",", " ", "?", ",", " ", "?", ",", " ", "?", ",", " ", "?", ")">>

SetUniqueIdSql ==
    <<"U", "P", "D", "A", "T", "E", " ", "b", "o", "o", "k", "i", "n", "g",
      "s", " ", "S", "E", "T", " ", "u", "n", "i", "q", "u", "e", "I", "d",
      " ", "=", " ", "?", " ", "W", "H", "E", "R", "E", " ", "i", "d", " ",
      "=", " ", "?">>

UpdateSql ==
    <<"U", "P", "D", "A", "T", "E", " ", "b", "o", "o", "k", "i", "n", "g",
      "s", " ", "S", "E", "T", " ", "c", "u", "s", "t", "o", "m", "e", "r",
      "N", "a", "m", "e", " ", "=", " ", "?", ",", " ", "c", "o", "n", "t",
      "a", "c", "t", "N", "u", "m", "b", "e", "r", " ", "=", " ", "?", ",",
      " ", "e", "v", "e", "n", "t", "D", "a", "t", "e", " ", "=", " ", "?",
      ",", " ", "e", "v", "e", "n", "t", "T", "i", "m", "e", " ", "=", " ",
      "?", ",", " ", "b", "r", "a", "n", "c", "h", " ", "=", " ", "?", ",",
      " ", "s", "e", "l", "e", "c", "t", "e", "d", "P", "a", "c", "k", "a",
      "g", "e", " ", "=", " ", "?", ",", " ", "a", "m", "o", "u", "n", "t",
      " ", "=", " ", "?", ",", " ", "c", "e", "l", "e", "b", "r", "a", "t",
      "i", "o", "n", "T", "y", "p", "e", " ", "=", " ", "?", " ", "W", "H",
      "E", "R", "E", " ", "i", "d", " ", "=", " ", "?">>

DeleteSql ==
    <<"D", "E", "L", "E", "T", "E", " ", "F", "R", "O", "M", " ", "b", "o",
      "o", "k", "i", "n", "g", "s", " ", "W", "H", "E", "R", "E", " ", "i",
      "d", " ", "=", " ", "?">>

ListSql ==
    <<"S", "E", "L", "E", "C", "T", " ", "i", "d", ",", " ", "u", "n", "i",
      "q", "u", "e", "I", "d", ",", " ", "c", "u", "s", "t", "o", "m", "e",
      "r", "N", "a", "m", "e", ",", " ", "c", "o", "n", "t", "a", "c", "t",
      "N", "u", "m", "b", "e", "r", ",", " ", "D", "A", "T", "E", "_", "F",
      "O", "R", "M", "A", "T", "(", "e", "v", "e", "n", "t", "D", "a", "t",
      "e", ",", " ", "'", "%", "d", "-", "%", "m", "-", "%", "Y", "'", ")",
      " ", "A", "S", " ", "e", "v", "e", "n", "t", "D", "a", "t", "e", ",",
      " ", "T", "I", "M", "E", "_", "F", "O", "R", "M", "A", "T", "(", "e",
      "v", "e", "n", "t", "T", "i", "m", "e", ",", " ", "'", "%", "H", ":",
      "%", "i", "'", ")", " ", "A", "S", " ", "e", "v", "e", "n", "t", "T",
      "i", "m", "e", ",", " ", "b", "r", "a", "n", "c", "h", ",", " ", "s",
      "e", "l", "e", "c", "t", "e", "d", "P", "a", "c", "k", "a", "g", "e",
      ",", " ", "a", "m", "o", "u", "n", "t", ",", " ", "c", "e", "l", "e",
      "b", "r", "a", "t", "i", "o", "n", "T", "y", "p", "e", " ", "F", "R",
      "O", "M", " ", "b", "o", "o", "k", "i", "n", "g", "s">>

GetOneSql ==
    <<"S", "E", "L", "E", "C", "T", " ", "i", "d", ",", " ", "u", "n", "i",
      "q", "u", "e", "I", "d", ",", " ", "c", "u", "s", "t", "o", "m", "e",
      "r", "N", "a", "m", "e", ",", " ", "c", "o", "n", "t", "a", "c", "t",
      "N", "u", "m", "b", "e", "r", ",", " ", "D", "A", "T", "E", "_", "F",
      "O", "R", "M", "A", "T", "(", "e", "v", "e", "n", "t", "D", "a", "t",
      "e", ",", " ", "'", "%", "d", "-", "%", "m", "-", "%", "Y", "'", ")",
      " ", "A", "S", " ", "e", "v", "e", "n", "t", "D", "a", "t", "e", ",",
      " ", "T", "I", "M", "E", "_", "F", "O", "R", "M", "A", "T", "(", "e",
      "v", "e", "n", "t", "T", "i", "m", "e", ",", " ", "'", "%", "H", ":",
      "%", "i", "'", ")", " ", "A", "S", " ", "e", "v", "e", "n", "t", "T",
      "i", "m", "e", ",", " ", "b", "r", "a", "n", "c", "h", ",", " ", "s",
      "e", "l", "e", "c", "t", "e", "d", "P", "a", "c", "k", "a", "g", "e",
      ",", " ", "a", "m", "o", "u", "n", "t", ",", " ", "c", "e", "l", "e",
      "b", "r", "a", "t", "i", "o", "n", "T", "y", "p", "e", " ", "F", "R",
      "O", "M", " ", "b", "o", "o", "k", "i", "n", "g", "s", " ", "W", "H",
      "E", "R", "E", " ", "i", "d", " ", "=", " ", "?">>

NotifySql ==
    <<"S", "E", "L", "E", "C", "T", " ", "i", "d", ",", " ", "u", "n", "i",
      "q", "u", "e", "I", "d", ",", " ", "c", "u", "s", "t", "o", "m", "e",
      "r", "N", "a", "m", "e", ",", " ", "c", "o", "n", "t", "a", "c", "t",
      "N", "u", "m", "b", "e", "r", ",", " ", "D", "A", "T", "E", "_", "F",
      "O", "R", "M", "A", "T", "(", "e", "v", "e", "n", "t", "D", "a", "t",
      "e", ",", " ", "'", "%", "d", "-", "%", "m", "-", "%", "Y", "'", ")",
      " ", "A", "S", " ", "e", "v", "e", "n", "t", "D", "a", "t", "e", ",",
      " ", "T", "I", "M", "E", "_", "F", "O", "R", "M", "A", "T", "(", "e",
      "v", "e", "n", "t", "T", "i", "m", "e", ",", " ", "'", "%", "H", ":",
      "%", "i", "'", ")", " ", "A", "S", " ", "e", "v", "e", "n", "t", "T",
      "i", "m", "e", ",", " ", "b", "r", "a", "n", "c", "h", ",", " ", "s",
      "e", "l", "e", "c", "t", "e", "d", "P", "a", "c", "k", "a", "g", "e",
      ",", " ", "a", "m", "o", "u", "n", "t", ",", " ", "c", "e", "l", "e",
      "b", "r", "a", "t", "i", "o", "n", "T", "y", "p", "e", " ", "F", "R",
      "O", "M", " ", "b", "o", "o", "k", "i", "n", "g", "s", " ", "W", "H",
      "E", "R", "E", " ", "e", "v", "e", "n", "t", "D", "a", "t", "e", " ",
      "=", " ", "?", " ", "O", "R", "D", "E", "R", " ", "B", "Y", " ", "e",
      "v", "e", "n", "t", "T", "i", "m", "e", " ", "A", "S", "C">>

\* a statement as a handler hands it to queryWithRetry: the text is FilterSqlBase
\* followed by the fragments of frags for "filter", a fixed text otherwise
FragText(f) ==
    CASE f = "date" -> FragDate
      [] f = "monthYear" -> FragMonthYear
      [] f = "branch" -> FragBranch

RECURSIVE FragsText(_)
FragsText(frags) ==
    IF frags = <<>> THEN <<>>
    ELSE FragText(Head(frags)) \o FragsText(Tail(frags))

SqlText(st) ==
    CASE st.sql = "filter" -> FilterSqlBase \o FragsText(st.frags)
      [] st.sql = "insert" -> InsertSql
      [] st.sql = "setUniqueId" -> SetUniqueIdSql
      [] st.sql = "update" -> UpdateSql
      [] st.sql = "delete" -> DeleteSql
      [] st.sql = "getOne" -> GetOneSql
      [] st.sql = "list" -> ListSql
      [] st.sql = "notify" -> NotifySql
      [] OTHER -> <<>>

NoStmt == [sql |-> "none", frags |-> <<>>, params |-> <<>>]

-----------------------------------------------------------------------------
(* Request validation.                                                     *)

\* /^[0-9]{10}$/.test(v)
MatchesContact(v) ==
    LET s == ToStr(v) IN Len(s) = 10 /\ \A i \in 1..10 : IsDigit(s[i])

\* /^\d{4}-\d{2}-\d{2}$/.test(v)
MatchesDate(v) ==
    LET s == ToStr(v)
    IN  /\ Len(s) = 10
        /\ \A i \in {1, 2, 3, 4, 6, 7, 9, 10} : IsDigit(s[i])
        /\ s[5] = "-"
        /\ s[8] = "-"

\* /^\d{2}:\d{2}:\d{2}$/.test(v)
MatchesTimeHMS(v) ==
    LET s == ToStr(v)
    IN  /\ Len(s) = 8
        /\ \A i \in {1, 2, 4, 5, 7, 8} : IsDigit(s[i])
        /\ s[3] = ":"
        /\ s[6] = ":"

\* /^\d{2}:\d{2}$/.test(v)
MatchesTimeHM(v) ==
    LET s == ToStr(v)
    IN  /\ Len(s) = 5
        /\ \A i \in {1, 2, 4, 5} : IsDigit(s[i])
        /\ s[3] = ":"

BodyFields ==
    {"customerName", "contactNumber", "eventDate", "eventTime", "branch",
     "selectedPackage", "amount", "celebrationType"}

\* the required-field test of the create and update handlers
MissingFields(b) ==
    \/ ~Truthy(b.customerName)
    \/ ~Truthy(b.contactNumber)
    \/ ~Truthy(b.eventDate)
    \/ ~Truthy(b.eventTime)
    \/ ~Truthy(b.branch)
    \/ ~Truthy(b.selectedPackage)
    \/ ~Truthy(b.amount)
    \/ ~Truthy(b.celebrationType)

\* what the create handler rejects before it issues the INSERT
CreateRejects(b) ==
    IF MissingFields(b) THEN "missing" ELSE "ok"

\* what the update handler rejects before it issues the UPDATE
UpdateRejects(b) ==
    IF MissingFields(b) THEN "missing"
    ELSE IF ~MatchesContact(b.contactNumber) THEN "contact"
    ELSE IF ~MatchesDate(b.eventDate) THEN "date"
    ELSE IF ~MatchesTimeHMS(b.eventTime) /\ ~MatchesTimeHM(b.eventTime) THEN "time"
    ELSE "ok"

\* normalizedTime of the update handler
NormalizedTime(t) ==
    IF MatchesTimeHMS(t) THEN Str(SliceTo(t.s, 5)) ELSE t

-----------------------------------------------------------------------------
(* The filter query builder of GET /api/bookings/filter.                   *)

DigitVal(c) == (CHOOSE d \in 1..10 : DigitChars[d] = c) - 1

RECURSIVE DigitsValue(_)
DigitsValue(s) ==
    IF s = <<>> THEN 0
    ELSE DigitsValue(SubSeq(s, 1, Len(s) - 1)) * 10 + DigitVal(s[Len(s)])

LeadingDigits(s) ==
    LET k == CHOOSE j \in 0..Len(s) :
                 /\ \A i \in 1..j : IsDigit(s[i])
                 /\ (j = Len(s) \/ ~IsDigit(s[j + 1]))
    IN  SubSeq(s, 1, k)

\* parseInt(v): an optional sign and the leading decimal digits, NaN without any
ParseInt(v) ==
    LET s == ToStr(v)
        neg == s # <<>> /\ s[1] = "-"
        ds == LeadingDigits(IF neg THEN Tail(s) ELSE s)
    IN  IF ds = <<>> THEN [nan |-> TRUE, n |-> 0]
        ELSE [nan |-> FALSE, n |-> IF neg THEN 0 - DigitsValue(ds) ELSE DigitsValue(ds)]

AllChars == <<"A", "l", "l">>

\* the branch test without the sentinel
WantsBranch_NoSentinel(branch) == Truthy(branch)

\* branch && branch !== 'All'
WantsBranch(branch) == Truthy(branch) /\ branch # Str(AllChars)

\* the date / month-year part with the two branches in the other order
DatePart_MonthYearFirst(q) ==
    IF Truthy(q.month) /\ Truthy(q.year)
    THEN LET monthNum == ParseInt(q.month)
             yearNum == ParseInt(q.year)
         IN  IF \/ monthNum.nan
                \/ monthNum.n < 1
                \/ monthNum.n > 12
                \/ yearNum.nan
                \/ yearNum.n < 1000
             THEN [error |-> "monthYear", frags |-> <<>>, params |-> <<>>]
             ELSE [error |-> "ok", frags |-> <<"monthYear">>,
                   params |-> <<Num(monthNum.n), Num(yearNum.n)>>]
    ELSE IF Truthy(q.date)
         THEN IF ~MatchesDate(q.date)
              THEN [error |-> "date", frags |-> <<>>, params |-> <<>>]
              ELSE [error |-> "ok", frags |-> <<"date">>, params |-> <<q.date>>]
         ELSE [error |-> "ok", frags |-> <<>>, params |-> <<>>]

\* the date / month-year part without the range test on month and year
DatePart_NoRange(q) ==
    IF Truthy(q.date)
    THEN IF ~MatchesDate(q.date)
         THEN [error |-> "date", frags |-> <<>>, params |-> <<>>]
         ELSE [error |-> "ok", frags |-> <<"date">>, params |-> <<q.date>>]
    ELSE IF Truthy(q.month) /\ Truthy(q.year)
         THEN [error |-> "ok", frags |-> <<"monthYear">>,
               params |-> <<Num(ParseInt(q.month).n), Num(ParseInt(q.year).n)>>]
         ELSE [error |-> "ok", frags |-> <<>>, params |-> <<>>]

\* the date / month-year part of the builder
DatePart(q) ==
    IF Truthy(q.date)
    THEN IF ~MatchesDate(q.date)
         THEN [error |-> "date", frags |-> <<>>, params |-> <<>>]
         ELSE [error |-> "ok", frags |-> <<"date">>, params |-> <<q.date>>]
    ELSE IF Truthy(q.month) /\ Truthy(q.year)
         THEN LET monthNum == ParseInt(q.month)
                  yearNum == ParseInt(q.year)
              IN  IF \/ monthNum.nan
                     \/ monthNum.n < 1
                     \/ monthNum.n > 12
                     \/ yearNum.nan
                     \/ yearNum.n < 1000
                  THEN [error |-> "monthYear", frags |-> <<>>, params |-> <<>>]
                  ELSE [error |-> "ok", frags |-> <<"monthYear">>,
                        params |-> <<Num(monthNum.n), Num(yearNum.n)>>]
         ELSE [error |-> "ok", frags |-> <<>>, params |-> <<>>]

\* a builder that puts the branch value in front of the parameter list
BuildFilter_BranchParamFirst(q) ==
    LET d == DatePart(q)
    IN  IF d.error # "ok" THEN d
        ELSE IF WantsBranch(q.branch)
             THEN [error |-> "ok", frags |-> Append(d.frags, "branch"),
                   params |-> <<q.branch>> \o d.params]
             ELSE d

\* the whole builder: the fragments appended to the text and the parameter list
BuildFilter(q) ==
    LET d == DatePart(q)
    IN  IF d.error # "ok" THEN d
        ELSE IF WantsBranch(q.branch)
             THEN [error |-> "ok", frags |-> Append(d.frags, "branch"),
                   params |-> Append(d.params, q.branch)]
             ELSE d

-----------------------------------------------------------------------------
(* The bookings table and what the database does with a statement.         *)

\* DATE_FORMAT(eventDate, '%d-%m-%Y')
DateFormat(v) ==
    IF v.t = "string" /\ MatchesDate(v)
    THEN Str(SubSeq(v.s, 9, 10) \o <<"-">> \o SubSeq(v.s, 6, 7) \o <<"-">>
             \o SubSeq(v.s, 1, 4))
    ELSE Null

\* TIME_FORMAT(eventTime, '%H:%i')
TimeFormat(v) ==
    IF v.t = "string" /\ (MatchesTimeHM(v) \/ MatchesTimeHMS(v))
    THEN Str(SubSeq(v.s, 1, 5))
    ELSE Null

\* one row as the SELECT list of the read handlers renders it
RenderRow(r) ==
    [r EXCEPT !.eventDate = DateFormat(@), !.eventTime = TimeFormat(@)]

\* MONTH(eventDate) and YEAR(eventDate); -1 stands for NULL
MonthOf(v) == IF MatchesDate(v) THEN DigitsValue(SubSeq(v.s, 6, 7)) ELSE -1
YearOf(v) == IF MatchesDate(v) THEN DigitsValue(SubSeq(v.s, 1, 4)) ELSE -1

RECURSIVE RowMatches(_, _, _)
\* the WHERE clause of the filter statement: each fragment takes its
\* placeholders' values from the front of the parameter list
RowMatches(r, frags, params) ==
    IF frags = <<>> THEN TRUE
    ELSE CASE Head(frags) = "date" ->
                /\ Len(params) >= 1
                /\ r.eventDate.s = ToStr(params[1])
                /\ RowMatches(r, Tail(frags), Tail(params))
           [] Head(frags) = "monthYear" ->
                /\ Len(params) >= 2
                /\ params[1].t = "number"
                /\ params[2].t = "number"
                /\ MonthOf(r.eventDate) = params[1].n
                /\ YearOf(r.eventDate) = params[2].n
                /\ RowMatches(r, Tail(frags), Tail(Tail(params)))
           [] Head(frags) = "branch" ->
                /\ Len(params) >= 1
                /\ r.branch = params[1]
                /\ RowMatches(r, Tail(frags), Tail(params))

\* the number MySQL compares an integer column with when the parameter is v:
\* a number as it is, a string by its leading digits (0 without any)
SqlNumber(v) ==
    IF v.t = "number" THEN v.n
    ELSE IF v.t = "string" THEN DigitsValue(LeadingDigits(v.s))
    ELSE -1

NoPayload == [isArray |-> FALSE, rows |-> {}, affectedRows |-> 0, insertId |-> 0]

\* an INSERT statement that stamps the uniqueId itself
InsertedRow_Stamped(params, id) ==
    [id |-> id, uniqueId |-> Str(PadStart(ToDecimal(id), 5, "0")),
     customerName |-> params[1], contactNumber |-> params[2],
     eventDate |-> params[3], eventTime |-> params[4], branch |-> params[5],
     selectedPackage |-> params[6], amount |-> params[7],
     celebrationType |-> params[8]]

\* the row an INSERT statement adds: the i-th parameter is the i-th column
InsertedRow(params, id) ==
    [id |-> id, uniqueId |-> Null,
     customerName |-> params[1], contactNumber |-> params[2],
     eventDate |-> params[3], eventTime |-> params[4], branch |-> params[5],
     selectedPackage |-> params[6], amount |-> params[7],
     celebrationType |-> params[8]]

\* an UPDATE statement that leaves the branch of the row as it was
UpdatedRow_KeepsBranch(r, params) ==
    [r EXCEPT !.customerName = params[1], !.contactNumber = params[2],
              !.eventDate = params[3], !.eventTime = params[4],
              !.selectedPackage = params[6], !.amount = params[7],
              !.celebrationType = params[8]]

\* an UPDATE statement that resets the uniqueId of the row
UpdatedRow_ClearsUniqueId(r, params) ==
    [r EXCEPT !.uniqueId = Null,
              !.customerName = params[1], !.contactNumber = params[2],
              !.eventDate = params[3], !.eventTime = params[4],
              !.branch = params[5], !.selectedPackage = params[6],
              !.amount = params[7], !.celebrationType = params[8]]

\* the row an UPDATE statement leaves: every column but id and uniqueId
UpdatedRow(r, params) ==
    [r EXCEPT !.customerName = params[1], !.contactNumber = params[2],
              !.eventDate = params[3], !.eventTime = params[4],
              !.branch = params[5], !.selectedPackage = params[6],
              !.amount = params[7], !.celebrationType = params[8]]

\* a WHERE clause that every row satisfies
Hit_All(table, id) == table

\* WHERE id = ?: the rows the statement applies to
Hit(table, id) == {r \in table : r.id = id}

\* the database executing one statement: the table and counter it leaves and
\* the first element of what pool.query resolves with
ExecStatement(st, table, nid) ==
    CASE st.sql = "filter" ->
           [table |-> table, nextId |-> nid,
            payload |-> [NoPayload EXCEPT
                !.isArray = TRUE,
                !.rows = {RenderRow(r) : r \in {x \in table :
                              RowMatches(x, st.frags, st.params)}}]]
      [] st.sql = "insert" ->
           [table |-> table \cup {InsertedRow(st.params, nid)},
            nextId |-> nid + 1,
            payload |-> [NoPayload EXCEPT !.affectedRows = 1, !.insertId = nid]]
      [] st.sql = "setUniqueId" ->
           LET hit == Hit(table, st.params[2].n)
           IN  [table |-> (table \ hit) \cup
                          {[r EXCEPT !.uniqueId = st.params[1]] : r \in hit},
                nextId |-> nid,
                payload |-> [NoPayload EXCEPT !.affectedRows = Cardinality(hit)]]
      [] st.sql = "update" ->
           LET hit == Hit(table, st.params[9].n)
           IN  [table |-> (table \ hit) \cup
                          {UpdatedRow(r, st.params) : r \in hit},
                nextId |-> nid,
                payload |-> [NoPayload EXCEPT !.affectedRows = Cardinality(hit)]]
      [] st.sql = "delete" ->
           LET hit == Hit(table, st.params[1].n)
           IN  [table |-> table \ hit,
                nextId |-> nid,
                payload |-> [NoPayload EXCEPT !.affectedRows = Cardinality(hit)]]
      [] st.sql = "list" ->
           [table |-> table, nextId |-> nid,
            payload |-> [NoPayload EXCEPT
                !.isArray = TRUE,
                !.rows = {RenderRow(r) : r \in table}]]
      [] st.sql = "getOne" ->
           [table |-> table, nextId |-> nid,
            payload |-> [NoPayload EXCEPT
                !.isArray = TRUE,
                !.rows = {RenderRow(r) : r \in {x \in table :
                              x.id = SqlNumber(st.params[1])}}]]
      [] st.sql = "notify" ->
           [table |-> table, nextId |-> nid,
            payload |-> [NoPayload EXCEPT
                !.isArray = TRUE,
                !.rows = {RenderRow(r) : r \in {x \in table :
                              x.eventDate.s = ToStr(st.params[1])}}]]

-----------------------------------------------------------------------------
(* The executor queryWithRetry.                                            *)

\* retries = 3
RetryBudget == 3
\* setTimeout(resolve, 1000)
BackoffMs == 1000

ClosedStateChars == <<"c", "l", "o", "s", "e", "d", " ", "s", "t", "a", "t", "e">>

\* err.message of the two kinds of failure the pool reports
ErrorMessage(err) ==
    IF err = "closed"
    THEN <<"C", "a", "n", "'", "t", " ", "a", "d", "d", " ", "n", "e", "w",
           " ", "c", "o", "m", "m", "a", "n", "d", " ", "w", "h", "e", "n",
           " ", "c", "o", "n", "n", "e", "c", "t", "i", "o", "n", " ", "i",
           "s", " ", "i", "n", " ", "c", "l", "o", "s", "e", "d", " ", "s",
           "t", "a", "t", "e">>
    ELSE <<"D", "e", "a", "d", "l", "o", "c", "k", " ", "f", "o", "u", "n", "d">>

\* setInterval(..., 300000)
KeepAliveMs == 300000

\* variants of the retry test, each off by one decision
ShouldRetry_OneLess(err, retries) ==
    Includes(ErrorMessage(err), ClosedStateChars) /\ retries > 2

ShouldRetry_AnyError(err, retries) == retries > 1

ShouldRetry_NoReserve(err, retries) ==
    Includes(ErrorMessage(err), ClosedStateChars) /\ retries > 0

\* err.message.includes('closed state') && retries > 1
ShouldRetry(err, retries) ==
    Includes(ErrorMessage(err), ClosedStateChars) /\ retries > 1

\* return Array.isArray(result[0]) ? result[0] : result[0]
QueryValue(result) == IF result[1].isArray THEN result[1] ELSE result[1]

\* sql.toLowerCase().includes('select') ? [] : { affectedRows: 0 }
Fallback(st) ==
    IF Includes(ToLowerCase(SqlText(st)), <<"s", "e", "l", "e", "c", "t">>)
    THEN [NoPayload EXCEPT !.isArray = TRUE]
    ELSE NoPayload

NoCall ==
    [retries |-> 0, attempts |-> 0, waits |-> 0, waitedMs |-> 0,
     closedFails |-> 0, otherFails |-> 0, outcome |-> "none",
     result |-> <<NoPayload, "none">>, value |-> NoPayload]

\* a call of queryWithRetry(sql, params) entering its loop
NewCall == [NoCall EXCEPT !.retries = RetryBudget, !.outcome = "pending"]

-----------------------------------------------------------------------------
(* Requests and responses.                                                 *)

NoBody == [f \in BodyFields |-> Undefined]
NoQuery == [date |-> Undefined, month |-> Undefined, year |-> Undefined,
            branch |-> Undefined, admin |-> Undefined]
\* id is the :id path segment of update and delete, param that of fetch-one
NoReq == [kind |-> "none", id |-> 0, param |-> <<>>, body |-> NoBody,
          query |-> NoQuery]
\* no create request answered 201 precedes
NoCreated == [body |-> NoBody, bookingId |-> <<>>]
NoLoc == [insertId |-> 0, bookingId |-> <<>>, before |-> {},
          created |-> NoCreated]
NoResp == [status |-> 0, error |-> "", bookingId |-> <<>>, rows |-> {}]

Reply(status, error) == [NoResp EXCEPT !.status = status, !.error = error]

\* width of the public identifier: padStart(5, '0')
PadWidth == 5

\* the identifier without the padding
BookingIdOf_NoPad(insertId) == ToDecimal(insertId)

\* String(result.insertId).padStart(5, '0')
BookingIdOf(insertId) == PadStart(ToDecimal(insertId), PadWidth, "0")

Date1 == <<"2", "0", "2", "5", "-", "0", "3", "-", "1", "0">>
Date2 == <<"2", "0", "2", "5", "-", "0", "4", "-", "2", "0">>
Pune == <<"P", "u", "n", "e">>
Goa == <<"G", "o", "a">>

ValidBody1 ==
    [customerName |-> Str(<<"R", "a", "j">>),
     contactNumber |-> Str(<<"9", "8", "7", "6", "5", "4", "3", "2", "1", "0">>),
     eventDate |-> Str(Date1),
     eventTime |-> Str(<<"1", "0", ":", "3", "0">>),
     branch |-> Str(Pune),
     selectedPackage |-> Str(<<"G", "o", "l", "d">>),
     amount |-> Num(5000),
     celebrationType |-> Str(<<"B", "d", "a", "y">>)]

\* ValidBody1 with the time written HH:MM:SS
SecondsBody ==
    [ValidBody1 EXCEPT
        !.eventTime = Str(<<"1", "0", ":", "3", "0", ":", "0", "0">>)]

\* a body of another customer, branch and date whose contactNumber has 5 digits
BadContactBody ==
    [customerName |-> Str(<<"M", "i", "a">>),
     contactNumber |-> Str(<<"1", "2", "3", "4", "5">>),
     eventDate |-> Str(Date2),
     eventTime |-> Str(<<"1", "8", ":", "0", "0">>),
     branch |-> Str(Goa),
     selectedPackage |-> Str(<<"G", "o", "l", "d">>),
     amount |-> Num(7000),
     celebrationType |-> Str(<<"B", "d", "a", "y">>)]

\* ValidBody1 with the date written DD-MM-YYYY
BadDateBody ==
    [ValidBody1 EXCEPT
        !.eventDate = Str(<<"1", "0", "-", "0", "3", "-", "2", "0", "2", "5">>)]

MissingNameBody == [ValidBody1 EXCEPT !.customerName = Undefined]

\* a well-formed body of another customer, branch and date
ValidBody2 ==
    [BadContactBody EXCEPT
        !.contactNumber = Str(<<"9", "9", "9", "9", "9", "0", "0", "0", "0", "0">>)]

\* ValidBody1 with an empty branch, a null celebrationType, a numeric amount 0
EmptyBranchBody == [ValidBody1 EXCEPT !.branch = Str(<<>>)]
NullTypeBody == [ValidBody1 EXCEPT !.celebrationType = Null]
AmountZeroBody == [ValidBody1 EXCEPT !.amount = Num(0)]

\* ValidBody1 with a time that is neither HH:MM nor HH:MM:SS
BadTimeBody == [ValidBody1 EXCEPT !.eventTime = Str(<<"7", "p", "m">>)]

\* the request bodies the model sends to the create route
CreateBodies ==
    {ValidBody1, BadContactBody, BadDateBody, BadTimeBody, MissingNameBody,
     EmptyBranchBody, NullTypeBody, AmountZeroBody}

\* the request bodies the model sends to the update route
UpdateBodies ==
    {ValidBody1, SecondsBody, BadContactBody, BadDateBody, BadTimeBody,
     MissingNameBody, EmptyBranchBody, NullTypeBody, AmountZeroBody}

\* the query strings the model sends to the filter route
FilterQueries ==
    {NoQuery,
     [NoQuery EXCEPT !.branch = Str(AllChars)],
     [NoQuery EXCEPT !.branch = Str(Goa)],
     [NoQuery EXCEPT !.date = Str(Date1)],
     [NoQuery EXCEPT !.date = Str(Date1), !.branch = Str(Goa)],
     [NoQuery EXCEPT !.date = Str(Date1), !.branch = Str(Pune),
                     !.month = Str(<<"4">>), !.year = Str(<<"2", "0", "2", "5">>)],
     [NoQuery EXCEPT !.date = Str(<<"1", "0", "-", "0", "3", "-", "2", "0", "2", "5">>)],
     [NoQuery EXCEPT !.month = Str(<<"4">>), !.year = Str(<<"2", "0", "2", "5">>)],
     [NoQuery EXCEPT !.month = Str(<<"1", "3">>), !.year = Str(<<"2", "0", "2", "5">>)],
     [NoQuery EXCEPT !.month = Str(<<"4">>), !.year = Str(<<"9", "9", "9">>)],
     [NoQuery EXCEPT !.month = Str(<<"4">>)]}

\* the values of the admin parameter the model sends to the notifications route
AdminValues ==
    {Undefined, Str(<<"t", "r", "u", "e">>), Str(<<"f", "a", "l", "s", "e">>),
     Str(<<"T", "R", "U", "E">>)}

\* the days the clock of the server may call tomorrow
Tomorrows == {Date1, Date2}

\* the keep-alive timer: its pool.query calls not yet settled and what its
\* callback logged last
NoPing == [pending |-> 0, log |-> "none"]

\* the values the AUTO_INCREMENT counter of bookings.id starts a run with
AutoIncrementStarts == {1, 99999}

StartOf(nid) == CHOOSE b \in AutoIncrementStarts : nid \in b..(b + MaxInserts)

\* the ids a request path names: those the run can assign
PathIds == StartOf(nextId)..(StartOf(nextId) + MaxInserts - 1)

\* the INSERT statements issued and not yet executed
PendingInserts ==
    Cardinality({q \in Procs : pc[q] \in {"query", "backoff"} /\ stmt[q].sql = "insert"})

CanInsert == nextId + PendingInserts < StartOf(nextId) + MaxInserts

-----------------------------------------------------------------------------
(* The connection pool: pool.query takes a connection for one statement.   *)

\* connectionLimit of mysql.createPool
ConnectionLimit == 2

\* the holder that stands for a query of the keep-alive timer
KeepAlive == 0

\* the connections in use (by request slots and by keep-alive queries) and the
\* callers waiting for one, oldest first (waitForConnections, queueLimit 0)
NoConns == [held |-> {}, pings |-> 0, queue |-> <<>>]

InUse(c) == Cardinality(c.held) + c.pings

Holds(c, x) == IF x = KeepAlive THEN c.pings > 0 ELSE x \in c.held

\* caller x is given a connection
Take(c, x) ==
    IF x = KeepAlive THEN [c EXCEPT !.pings = @ + 1]
    ELSE [c EXCEPT !.held = @ \cup {x}]

\* pool.query asks for a connection: one is handed out while fewer than
\* connectionLimit are in use, otherwise the caller joins the queue
Acquire(c, x) ==
    IF InUse(c) < ConnectionLimit THEN Take(c, x)
    ELSE [c EXCEPT !.queue = Append(@, x)]

\* a pool whose connections are never given back
Release_Never(c, x) == c

\* the statement of x has ended: its connection goes to the oldest waiting
\* caller, or back to the pool
Release(c, x) ==
    IF ~Holds(c, x) THEN c
    ELSE LET d == IF x = KeepAlive THEN [c EXCEPT !.pings = @ - 1]
                  ELSE [c EXCEPT !.held = @ \ {x}]
         IN  IF d.queue = <<>> THEN d
             ELSE Take([d EXCEPT !.queue = Tail(@)], Head(d.queue))

-----------------------------------------------------------------------------
(* The server process and the source files it can be started from.         *)

Variants == {"server.js", "part_000", "part_001", "part_002", "part_003",
             "part_004"}

\* the last request the router dispatched: its method, the segments of its
\* path, the handler that got it and the :id parameter it was given
NoRoute == [method |-> "", path |-> <<>>, handler |-> "none", id |-> ""]

\* the process after app.listen: the listener accepts connections, the pool is
\* open, no shutdown timer is set, no HTTP connection is open
Running ==
    [state |-> "running", listener |-> "listening", pool |-> "open",
     timer |-> "off", open |-> 0, exit |-> "none", log |-> <<>>,
     route |-> NoRoute]

Alive == proc.state # "exited"

-----------------------------------------------------------------------------
(* The state machine.                                                      *)

Init ==
    /\ bookings = {}
    /\ nextId \in AutoIncrementStarts
    /\ pc = [p \in Procs |-> "idle"]
    /\ req = [p \in Procs |-> NoReq]
    /\ stmt = [p \in Procs |-> NoStmt]
    /\ call = [p \in Procs |-> NoCall]
    /\ loc = [p \in Procs |-> NoLoc]
    /\ resp = [p \in Procs |-> NoResp]
    /\ ping = NoPing
    /\ conns = NoConns
    /\ variant = "server.js"
    /\ proc = Running

Free(p) == Alive /\ pc[p] \in {"idle", "done"}

\* a handler that looks the booking up before it answers the rejection
Reject_AfterLookup(p, r, status, error) ==
    /\ pc' = [pc EXCEPT ![p] = "done"]
    /\ req' = [req EXCEPT ![p] = r]
    /\ stmt' = [stmt EXCEPT ![p] =
                   [sql |-> "getOne", frags |-> <<>>, params |-> <<Num(r.id)>>]]
    /\ call' = [call EXCEPT ![p] =
                   [NewCall EXCEPT !.attempts = 1, !.outcome = "returned"]]
    /\ loc' = [loc EXCEPT ![p] = [NoLoc EXCEPT !.before = bookings]]
    /\ resp' = [resp EXCEPT ![p] = Reply(status, error)]
    /\ UNCHANGED <<bookings, nextId, ping, conns, variant, proc>>

\* the handler answers without having called queryWithRetry; loc.before keeps
\* the table as the request found it
Reject(p, r, status, error) ==
    /\ pc' = [pc EXCEPT ![p] = "done"]
    /\ req' = [req EXCEPT ![p] = r]
    /\ stmt' = [stmt EXCEPT ![p] = NoStmt]
    /\ call' = [call EXCEPT ![p] = NoCall]
    /\ loc' = [loc EXCEPT ![p] = [NoLoc EXCEPT !.before = bookings]]
    /\ resp' = [resp EXCEPT ![p] = Reply(status, error)]
    /\ UNCHANGED <<bookings, nextId, ping, conns, variant, proc>>

\* the create request answered 201 right before the fetch-one request r of
\* slot p, if there is one
LastCreated(p, r) ==
    IF /\ r.kind = "get"
       /\ pc[p] = "done"
       /\ req[p].kind = "create"
       /\ resp[p].status = 201
    THEN [body |-> req[p].body, bookingId |-> resp[p].bookingId]
    ELSE NoCreated

\* the handler calls queryWithRetry(st.sql, st.params) and is suspended
Issue(p, r, st) ==
    /\ pc' = [pc EXCEPT ![p] = "query"]
    /\ req' = [req EXCEPT ![p] = r]
    /\ stmt' = [stmt EXCEPT ![p] = st]
    /\ call' = [call EXCEPT ![p] = NewCall]
    /\ loc' = [loc EXCEPT ![p] = [NoLoc EXCEPT !.before = bookings,
                                               !.created = LastCreated(p, r)]]
    /\ resp' = [resp EXCEPT ![p] = NoResp]
    /\ conns' = Acquire(conns, p)
    /\ UNCHANGED <<bookings, nextId, ping, variant, proc>>

BodyParams(b) ==
    <<b.customerName, b.contactNumber, b.eventDate, b.eventTime, b.branch,
      b.selectedPackage, b.amount, b.celebrationType>>

\* the create handler called with body b
PostRequest(p, b) ==
    LET r == [NoReq EXCEPT !.kind = "create", !.body = b]
    IN  IF CreateRejects(b) # "ok"
        THEN Reject(p, r, 400, CreateRejects(b))
        ELSE Issue(p, r, [sql |-> "insert", frags |-> <<>>,
                          params |-> BodyParams(b)])

\* app.post('/api/bookings')
PostBooking(p) ==
    /\ Free(p)
    /\ CanInsert
    /\ \E b \in CreateBodies : PostRequest(p, b)

\* the update handler called with path id and body b
PutRequest(p, id, b) ==
    LET r == [NoReq EXCEPT !.kind = "update", !.id = id, !.body = b]
    IN  IF UpdateRejects(b) # "ok"
        THEN Reject(p, r, 400, UpdateRejects(b))
        ELSE Issue(p, r, [sql |-> "update", frags |-> <<>>,
                          params |-> BodyParams(
                              [b EXCEPT !.eventTime = NormalizedTime(@)])
                              \o <<Num(id)>>])

\* app.put('/api/bookings/:id')
PutBooking(p) ==
    /\ Free(p)
    /\ \E id \in PathIds, b \in UpdateBodies : PutRequest(p, id, b)

\* the delete handler called with path id
DeleteRequest(p, id) ==
    Issue(p, [NoReq EXCEPT !.kind = "delete", !.id = id],
          [sql |-> "delete", frags |-> <<>>, params |-> <<Num(id)>>])

\* app.delete('/api/bookings/:id')
DeleteBooking(p) ==
    /\ Free(p)
    /\ \E id \in PathIds : DeleteRequest(p, id)

\* app.get('/api/bookings/filter')
GetFilter(p) ==
    /\ Free(p)
    /\ \E q \in FilterQueries :
        LET r == [NoReq EXCEPT !.kind = "filter", !.query = q]
            f == BuildFilter(q)
        IN  IF f.error # "ok"
            THEN Reject(p, r, 400, f.error)
            ELSE Issue(p, r, [sql |-> "filter", frags |-> f.frags,
                              params |-> f.params])

\* app.get('/api/bookings')
GetBookings(p) ==
    /\ Free(p)
    /\ Issue(p, [NoReq EXCEPT !.kind = "list"],
             [sql |-> "list", frags |-> <<>>, params |-> <<>>])

\* the :id path segments the model sends to the fetch-one route: the public
\* identifiers of the ids the run can assign
PathParams == {BookingIdOf(id) : id \in PathIds}

\* app.get('/api/bookings/:id')
GetBooking(p) ==
    /\ Free(p)
    /\ \E id \in PathParams :
        Issue(p, [NoReq EXCEPT !.kind = "get", !.param = id],
              [sql |-> "getOne", frags |-> <<>>, params |-> <<Str(id)>>])

\* a test that lets every non-empty admin value pass
IsAdmin_Truthy(admin) == Truthy(admin)

\* req.query.admin === 'true'
IsAdmin(admin) == admin = Str(<<"t", "r", "u", "e">>)

\* app.get('/api/notifications')
GetNotifications(p) ==
    /\ Free(p)
    /\ \E a \in AdminValues, tomorrowDate \in Tomorrows :
        LET r == [NoReq EXCEPT !.kind = "notifications", !.query.admin = a]
        IN  IF ~IsAdmin(a)
            THEN Reject(p, r, 403, "denied")
            ELSE Issue(p, r, [sql |-> "notify", frags |-> <<>>,
                              params |-> <<Str(tomorrowDate)>>])

\* a handler that never takes the not-found branch
NothingAffected_Never(value) == FALSE

\* !result || result.affectedRows === 0
NothingAffected(value) == value.affectedRows = 0

\* the handler of p resumes with the value queryWithRetry returned; c is the
\* finished call
Resume(p, c, value) ==
    /\ UNCHANGED <<req, ping, variant, proc>>
    /\ conns' = IF stmt[p].sql = "insert"
                THEN Acquire(Release(conns, p), p)
                ELSE Release(conns, p)
    /\ IF stmt[p].sql = "insert"
       THEN LET bookingId == BookingIdOf(value.insertId)
            IN  /\ loc' = [loc EXCEPT ![p] = [@ EXCEPT
                                              !.insertId = value.insertId,
                                              !.bookingId = bookingId]]
                /\ stmt' = [stmt EXCEPT ![p] =
                               [sql |-> "setUniqueId", frags |-> <<>>,
                                params |-> <<Str(bookingId), Num(value.insertId)>>]]
                /\ call' = [call EXCEPT ![p] = NewCall]
                /\ pc' = [pc EXCEPT ![p] = "query"]
                /\ UNCHANGED resp
       ELSE /\ UNCHANGED <<loc, stmt>>
            /\ call' = [call EXCEPT ![p] = c]
            /\ pc' = [pc EXCEPT ![p] = "done"]
            /\ resp' = [resp EXCEPT ![p] =
                 CASE stmt[p].sql = "filter" ->
                        IF Cardinality(value.rows) = 0
                        THEN Reply(404, "empty")
                        ELSE [Reply(200, "") EXCEPT !.rows = value.rows]
                   [] stmt[p].sql = "getOne" ->
                        IF Cardinality(value.rows) = 0
                        THEN Reply(404, "notFound")
                        ELSE [Reply(200, "") EXCEPT
                                !.rows = {CHOOSE r \in value.rows : TRUE}]
                   [] stmt[p].sql \in {"notify", "list"} ->
                        [Reply(200, "") EXCEPT !.rows = value.rows]
                   [] stmt[p].sql = "setUniqueId" ->
                        [Reply(201, "") EXCEPT !.bookingId = loc[p].bookingId]
                   [] stmt[p].sql \in {"update", "delete"} ->
                        IF NothingAffected(value)
                        THEN Reply(404, "notFound")
                        ELSE Reply(200, "")]

\* pool.query resolves: the database has executed the statement
QuerySucceeds(p) ==
    /\ Alive
    /\ pc[p] = "query"
    /\ Holds(conns, p)
    /\ LET ex == ExecStatement(stmt[p], bookings, nextId)
           result == <<ex.payload, "fields">>
           c == [call[p] EXCEPT !.attempts = @ + 1, !.outcome = "returned",
                                !.result = result, !.value = QueryValue(result)]
       IN  /\ bookings' = ex.table
           /\ nextId' = ex.nextId
           /\ Resume(p, c, c.value)

\* a handler without a catch block: the rejection escapes and nothing is sent
HandlerCatch_Unhandled(p, c, err) ==
    /\ call' = [call EXCEPT ![p] = [c EXCEPT !.outcome = "threw"]]
    /\ pc' = [pc EXCEPT ![p] = "unhandled"]
    /\ UNCHANGED resp

\* queryWithRetry throws err and the catch block of the handler answers 500
HandlerCatch(p, c, err) ==
    /\ call' = [call EXCEPT ![p] = [c EXCEPT !.outcome = "threw"]]
    /\ pc' = [pc EXCEPT ![p] = "done"]
    /\ resp' = [resp EXCEPT ![p] = Reply(500, err)]

\* pool.query rejects with err: the statement had no effect
QueryFails(p, err) ==
    /\ Alive
    /\ pc[p] = "query"
    /\ Holds(conns, p)
    /\ conns' = Release(conns, p)
    /\ UNCHANGED <<bookings, nextId, req, stmt, loc, ping, variant, proc>>
    /\ LET c == [call[p] EXCEPT
                    !.attempts = @ + 1,
                    !.closedFails = IF err = "closed" THEN @ + 1 ELSE @,
                    !.otherFails = IF err = "closed" THEN @ ELSE @ + 1]
       IN  IF ShouldRetry(err, c.retries)
           THEN /\ call' = [call EXCEPT ![p] = [c EXCEPT !.retries = @ - 1]]
                /\ pc' = [pc EXCEPT ![p] = "backoff"]
                /\ UNCHANGED resp
           ELSE HandlerCatch(p, c, err)

QueryFailsClosed(p) == QueryFails(p, "closed")

QueryFailsOther(p) == QueryFails(p, "other")

\* the backoff timer fires and the loop of queryWithRetry tests retries > 0
BackoffElapses(p) ==
    /\ Alive
    /\ pc[p] = "backoff"
    /\ LET c == [call[p] EXCEPT !.waits = @ + 1, !.waitedMs = @ + BackoffMs]
       IN  IF c.retries > 0
           THEN /\ call' = [call EXCEPT ![p] = c]
                /\ pc' = [pc EXCEPT ![p] = "query"]
                /\ conns' = Acquire(conns, p)
                /\ UNCHANGED <<bookings, nextId, req, stmt, loc, resp, ping,
                               variant, proc>>
           ELSE /\ UNCHANGED <<bookings, nextId>>
                /\ Resume(p, [c EXCEPT !.outcome = "returned",
                                       !.value = Fallback(stmt[p])],
                          Fallback(stmt[p]))

\* one step of the request in slot p
Step(p) ==
    \/ PostBooking(p)
    \/ PutBooking(p)
    \/ DeleteBooking(p)
    \/ GetFilter(p)
    \/ GetBookings(p)
    \/ GetBooking(p)
    \/ GetNotifications(p)
    \/ QuerySucceeds(p)
    \/ QueryFailsClosed(p)
    \/ QueryFailsOther(p)
    \/ BackoffElapses(p)

\* the requests arrive one after another: a single slot is in use
Next == Step(1)

Spec == Init /\ [][Next]_vars

\* pool.query settles, one way or the other
QuerySettles(p) ==
    QuerySucceeds(p) \/ QueryFailsClosed(p) \/ QueryFailsOther(p)

\* the table is empty or holds one booking, created by an earlier request
InitOnce ==
    /\ \/ bookings = {} /\ nextId = 1
       \/ /\ bookings = {[InsertedRow(BodyParams(ValidBody1), 1) EXCEPT
                              !.uniqueId = Str(BookingIdOf(1))]}
          /\ nextId = 2
    /\ pc = [p \in Procs |-> "idle"]
    /\ req = [p \in Procs |-> NoReq]
    /\ stmt = [p \in Procs |-> NoStmt]
    /\ call = [p \in Procs |-> NoCall]
    /\ loc = [p \in Procs |-> NoLoc]
    /\ resp = [p \in Procs |-> NoResp]
    /\ ping = NoPing
    /\ conns = NoConns
    /\ variant = "server.js"
    /\ proc = Running

\* one request of any kind arrives
OneRequest ==
    /\ pc[1] = "idle"
    /\ \/ PostBooking(1)
       \/ PutBooking(1)
       \/ DeleteBooking(1)
       \/ GetFilter(1)
       \/ GetBookings(1)
       \/ GetBooking(1)
       \/ GetNotifications(1)

NextOnce ==
    \/ OneRequest
    \/ QuerySucceeds(1)
    \/ QueryFailsClosed(1)
    \/ QueryFailsOther(1)
    \/ BackoffElapses(1)

\* one request followed to its answer, every pool.query call settling and every
\* backoff timer firing
FairSpec ==
    /\ InitOnce
    /\ [][NextOnce]_vars
    /\ WF_vars(QuerySettles(1))
    /\ WF_vars(BackoffElapses(1))

-----------------------------------------------------------------------------
(* The server under concurrency: two update requests for one booking in    *)
(* flight at the same time, and the keep-alive timer.                      *)

\* the keep-alive interval elapses: the callback calls pool.query('SELECT 1')
PingTick ==
    /\ Alive
    /\ ping.pending < MaxPings
    /\ ping' = [ping EXCEPT !.pending = @ + 1]
    /\ conns' = Acquire(conns, KeepAlive)
    /\ UNCHANGED <<bookings, nextId, pc, req, stmt, call, loc, resp, variant,
                   proc>>

\* pool.query('SELECT 1') resolves: 'Pool pinged'
PingResolves ==
    /\ Alive
    /\ Holds(conns, KeepAlive)
    /\ ping' = [pending |-> ping.pending - 1, log |-> "pinged"]
    /\ conns' = Release(conns, KeepAlive)
    /\ UNCHANGED <<bookings, nextId, pc, req, stmt, call, loc, resp, variant,
                   proc>>

\* a keep-alive callback whose failure ends the process
PingRejects_Exits ==
    /\ Alive
    /\ Holds(conns, KeepAlive)
    /\ ping' = [pending |-> ping.pending - 1, log |-> "error"]
    /\ conns' = Release(conns, KeepAlive)
    /\ proc' = [proc EXCEPT !.state = "exited", !.exit = "code1"]
    /\ UNCHANGED <<bookings, nextId, pc, req, stmt, call, loc, resp, variant>>

\* pool.query('SELECT 1') rejects: the catch block logs 'Ping error'
PingRejects ==
    /\ Alive
    /\ Holds(conns, KeepAlive)
    /\ ping' = [pending |-> ping.pending - 1, log |-> "error"]
    /\ conns' = Release(conns, KeepAlive)
    /\ UNCHANGED <<bookings, nextId, pc, req, stmt, call, loc, resp, variant,
                   proc>>

\* the id of the booking the concurrent requests address
RaceId == 1

\* the bodies of the concurrent update requests
RaceBodies == {ValidBody1, ValidBody2}

\* the table holds one booking, created by an earlier request
InitConcurrent ==
    /\ bookings = {[InsertedRow(BodyParams(BadContactBody), RaceId) EXCEPT
                        !.uniqueId = Str(BookingIdOf(RaceId))]}
    /\ nextId = RaceId + 1
    /\ pc = [p \in Procs |-> "idle"]
    /\ req = [p \in Procs |-> NoReq]
    /\ stmt = [p \in Procs |-> NoStmt]
    /\ call = [p \in Procs |-> NoCall]
    /\ loc = [p \in Procs |-> NoLoc]
    /\ resp = [p \in Procs |-> NoResp]
    /\ ping = NoPing
    /\ conns = NoConns
    /\ variant = "server.js"
    /\ proc = Running

\* an update request for the booking arrives in a slot not used before
RacePut(p) ==
    /\ Alive
    /\ pc[p] = "idle"
    /\ \E b \in RaceBodies : PutRequest(p, RaceId, b)

NextConcurrent ==
    \/ \E p \in Procs : RacePut(p)
    \/ \E p \in Procs : QuerySucceeds(p)
    \/ \E p \in Procs : QueryFailsClosed(p)
    \/ \E p \in Procs : QueryFailsOther(p)
    \/ \E p \in Procs : BackoffElapses(p)
    \/ PingTick
    \/ PingResolves
    \/ PingRejects

SpecConcurrent == InitConcurrent /\ [][NextConcurrent]_vars

-----------------------------------------------------------------------------
(* A create request and delete requests for the id it is given, in flight  *)
(* at the same time.                                                       *)

\* the table is empty and the next id is the one the delete requests name
InitCreateDelete ==
    /\ bookings = {}
    /\ nextId = RaceId
    /\ pc = [p \in Procs |-> "idle"]
    /\ req = [p \in Procs |-> NoReq]
    /\ stmt = [p \in Procs |-> NoStmt]
    /\ call = [p \in Procs |-> NoCall]
    /\ loc = [p \in Procs |-> NoLoc]
    /\ resp = [p \in Procs |-> NoResp]
    /\ ping = NoPing
    /\ conns = NoConns
    /\ variant = "server.js"
    /\ proc = Running

\* a create request arrives in a slot not used before
RacePost(p) ==
    /\ Alive
    /\ pc[p] = "idle"
    /\ CanInsert
    /\ PostRequest(p, ValidBody1)

\* a delete request for the id arrives in a slot not used before
RaceDelete(p) ==
    /\ Alive
    /\ pc[p] = "idle"
    /\ DeleteRequest(p, RaceId)

NextCreateDelete ==
    \/ \E p \in Procs : RacePost(p)
    \/ \E p \in Procs : RaceDelete(p)
    \/ \E p \in Procs : QuerySucceeds(p)
    \/ \E p \in Procs : QueryFailsClosed(p)
    \/ \E p \in Procs : QueryFailsOther(p)
    \/ \E p \in Procs : BackoffElapses(p)

SpecCreateDelete == InitCreateDelete /\ [][NextCreateDelete]_vars

-----------------------------------------------------------------------------
(* The router and the shutdown of the process, for each source file the    *)
(* server can be started from.                                             *)

Route(method, pattern, handler) ==
    [method |-> method, pattern |-> pattern, handler |-> handler]

BookingsPath == <<"api", "bookings">>
FilterPath == <<"api", "bookings", "filter">>
IdPattern == <<"api", "bookings", ":id">>
NotificationsPath == <<"api", "notifications">>

\* app.use(handler) without a path: every method, every path
CatchAll == Route("ANY", <<"*">>, "notFound")

\* the routes of a source file in the order the file registers them
Routes(v) ==
    CASE v = "server.js" ->
           <<Route("GET", <<"health">>, "health"),
             Route("GET", <<"api", "test">>, "test"),
             Route("GET", FilterPath, "filter"),
             Route("GET", BookingsPath, "list"),
             Route("GET", IdPattern, "getOne"),
             Route("POST", BookingsPath, "create"),
             Route("PUT", IdPattern, "update"),
             Route("DELETE", IdPattern, "delete"),
             Route("GET", NotificationsPath, "notifications"),
             Route("GET", <<"health">>, "health"),
             CatchAll>>
      [] v = "part_000" ->
           <<Route("GET", <<"api", "test">>, "test"),
             Route("GET", <<"health">>, "health"),
             Route("GET", <<>>, "root"),
             Route("GET", FilterPath, "filter"),
             Route("GET", BookingsPath, "list"),
             Route("GET", IdPattern, "getOne"),
             Route("POST", BookingsPath, "create"),
             Route("PUT", IdPattern, "update"),
             Route("DELETE", IdPattern, "delete"),
             Route("GET", NotificationsPath, "notifications"),
             CatchAll>>
      [] v = "part_001" ->
           <<Route("GET", <<"api", "test">>, "test"),
             Route("GET", <<"health">>, "health"),
             Route("GET", <<>>, "root"),
             Route("POST", BookingsPath, "create"),
             Route("GET", BookingsPath, "list"),
             Route("GET", IdPattern, "getOne"),
             Route("PUT", IdPattern, "update"),
             Route("DELETE", IdPattern, "delete"),
             Route("GET", FilterPath, "filter"),
             Route("GET", NotificationsPath, "notifications"),
             CatchAll>>
      [] v = "part_002" ->
           <<Route("POST", BookingsPath, "create"),
             Route("GET", BookingsPath, "list"),
             Route("DELETE", IdPattern, "delete"),
             Route("GET", FilterPath, "filter"),
             Route("GET", NotificationsPath, "notifications")>>
      [] v = "part_003" ->
           <<Route("GET", <<"ping">>, "ping"),
             Route("POST", BookingsPath, "create"),
             Route("GET", BookingsPath, "list"),
             Route("DELETE", IdPattern, "delete"),
             Route("GET", FilterPath, "filter"),
             Route("GET", NotificationsPath, "notifications")>>
      [] v = "part_004" ->
           <<Route("GET", <<"health">>, "health"),
             Route("POST", BookingsPath, "create"),
             Route("GET", BookingsPath, "list"),
             Route("DELETE", IdPattern, "delete"),
             Route("GET", FilterPath, "filter"),
             Route("GET", NotificationsPath, "notifications")>>

\* a segment of a route pattern that names a parameter
IsParam(seg) == seg = ":id"

\* the route matches the method and the path of a request
Matches(route, method, path) ==
    /\ route.method \in {"ANY", method}
    /\ \/ route.pattern = <<"*">>
       \/ /\ Len(route.pattern) = Len(path)
          /\ \A i \in 1..Len(path) :
                IsParam(route.pattern[i]) \/ route.pattern[i] = path[i]

\* the router hands the request to the first registered route that matches;
\* when none does, the framework answers 404 itself
Dispatch(v, method, path) ==
    LET hits == {i \in 1..Len(Routes(v)) : Matches(Routes(v)[i], method, path)}
    IN  IF hits = {}
        THEN [method |-> method, path |-> path, handler |-> "default404",
              id |-> ""]
        ELSE LET first == CHOOSE i \in hits : \A j \in hits : i <= j
                 route == Routes(v)[first]
                 at == {i \in 1..Len(route.pattern) : IsParam(route.pattern[i])}
             IN  [method |-> method, path |-> path, handler |-> route.handler,
                  id |-> IF at = {} \/ route.pattern = <<"*">> THEN ""
                         ELSE path[CHOOSE i \in at : TRUE]]

\* the requests clients send
RequestsSent ==
    {[method |-> "GET", path |-> FilterPath],
     [method |-> "GET", path |-> BookingsPath],
     [method |-> "GET", path |-> <<"api", "bookings", "00001">>],
     [method |-> "DELETE", path |-> <<"api", "bookings", "1">>],
     [method |-> "GET", path |-> NotificationsPath],
     [method |-> "GET", path |-> <<"health">>]}

\* the source files that register a SIGTERM handler
HasSigtermHandler(v) == v \in {"part_000", "part_001", "part_004"}

\* the handlers that set the 10 second timer whose callback calls
\* process.exit(1)
SetsForceTimer(v) == v \in {"part_000", "part_001"}

\* the handlers that pass server.close a callback that calls pool.end
ClosesPoolAfterListener(v) == v \in {"part_000", "part_004"}

\* everything but the process itself
requestVars ==
    <<bookings, nextId, pc, req, stmt, call, loc, resp, ping, conns>>

\* the server started from any of the source files
InitProcess ==
    /\ bookings = {}
    /\ nextId = 1
    /\ pc = [p \in Procs |-> "idle"]
    /\ req = [p \in Procs |-> NoReq]
    /\ stmt = [p \in Procs |-> NoStmt]
    /\ call = [p \in Procs |-> NoCall]
    /\ loc = [p \in Procs |-> NoLoc]
    /\ resp = [p \in Procs |-> NoResp]
    /\ ping = NoPing
    /\ conns = NoConns
    /\ variant \in Variants
    /\ proc = Running

\* a client opens a connection to the listener
Connect ==
    /\ Alive
    /\ proc.listener = "listening"
    /\ proc.open < MaxOpen
    /\ proc' = [proc EXCEPT !.open = @ + 1]
    /\ UNCHANGED <<requestVars, variant>>

\* a client closes its connection
Disconnect ==
    /\ Alive
    /\ proc.open > 0
    /\ proc' = [proc EXCEPT !.open = @ - 1]
    /\ UNCHANGED <<requestVars, variant>>

\* a request arrives on an open connection and the router dispatches it
HttpRequest ==
    /\ Alive
    /\ proc.open > 0
    /\ \E r \in RequestsSent :
          proc' = [proc EXCEPT !.route = Dispatch(variant, r.method, r.path)]
    /\ UNCHANGED <<requestVars, variant>>

\* the process receives SIGTERM (once).  Without a handler the signal ends the
\* process at once; with one, server.close stops the listener from accepting
\* and the handler returns
Sigterm ==
    /\ proc.state = "running"
    /\ proc' = IF ~HasSigtermHandler(variant)
               THEN [proc EXCEPT !.state = "exited", !.exit = "signal"]
               ELSE [proc EXCEPT
                       !.state = "closing",
                       !.listener = "closing",
                       !.timer = IF SetsForceTimer(variant) THEN "armed"
                                 ELSE "off",
                       !.log = Append(@, "sigterm")]
    /\ UNCHANGED <<requestVars, variant>>

\* the last open connection is gone: the listener emits 'close' and the
\* callback given to server.close, if any, runs and calls pool.end
ListenerCloses ==
    /\ Alive
    /\ proc.listener = "closing"
    /\ proc.open = 0
    /\ proc' = [proc EXCEPT
                  !.listener = "closed",
                  !.pool = IF ClosesPoolAfterListener(variant) THEN "ending"
                           ELSE @,
                  !.log = Append(@, "listenerClosed")]
    /\ UNCHANGED <<requestVars, variant>>

\* pool.end calls back: the callback logs and calls process.exit(0)
PoolEnds ==
    /\ Alive
    /\ proc.pool = "ending"
    /\ proc' = [proc EXCEPT
                  !.pool = "ended",
                  !.state = "exited",
                  !.exit = "code0",
                  !.log = @ \o <<"poolClosed", "exit0">>]
    /\ UNCHANGED <<requestVars, variant>>

\* the 10 second timer fires: 'Force shutdown', process.exit(1)
ForceExit ==
    /\ Alive
    /\ proc.timer = "armed"
    /\ proc' = [proc EXCEPT
                  !.timer = "off",
                  !.state = "exited",
                  !.exit = "code1",
                  !.log = Append(@, "forceExit")]
    /\ UNCHANGED <<requestVars, variant>>

NextProcess ==
    \/ Connect
    \/ Disconnect
    \/ HttpRequest
    \/ Sigterm
    \/ ListenerCloses
    \/ PoolEnds
    \/ ForceExit

SpecProcess == InitProcess /\ [][NextProcess]_vars

-----------------------------------------------------------------------------
(* Properties of queryWithRetry.                                           *)

Finished(c) == c.outcome \in {"returned", "threw"}

\* the call has ended and every attempt of it failed with 'closed state'
GaveUp(c) ==
    Finished(c) /\ c.attempts >= 1 /\ c.closedFails = c.attempts

\* C1: a call whose attempts all fail with 'closed state' does not fail: it
\* returns an empty row sequence for a row-returning statement and a result
\* with affectedRows = 0 for a mutating statement.
C1_ExhaustionReturnsFallback ==
    \A p \in Procs :
        GaveUp(call[p]) =>
            /\ call[p].outcome = "returned"
            /\ IF stmt[p].sql = "filter"
               THEN call[p].value.isArray /\ call[p].value.rows = {}
               ELSE ~call[p].value.isArray /\ call[p].value.affectedRows = 0

\* C2: two 'closed state' failures followed by a success: the call returns what
\* the pool resolved with on the third attempt, after three attempts and two
\* backoff waits, and raises no error.
C2_TwoFailuresThenSuccess ==
    \A p \in Procs :
        (Finished(call[p]) /\ call[p].closedFails = 2 /\ call[p].otherFails = 0) =>
            /\ call[p].outcome = "returned"
            /\ call[p].attempts = 3
            /\ call[p].waits = 2
            /\ call[p].result[2] = "fields"
            /\ call[p].value = call[p].result[1]
            /\ resp[p].status # 500

C2_Witness ==
    \E p \in Procs :
        /\ call[p].outcome = "returned"
        /\ call[p].closedFails = 2
        /\ call[p].attempts = 3
        /\ stmt[p].sql = "delete"
        /\ resp[p].status = 200

\* C3: a failure whose message does not contain 'closed state' ends the call
\* at once: it is thrown to the handler, no attempt and no backoff wait follow
\* it, whatever budget remains.
C3_OtherErrorPropagates ==
    \A p \in Procs :
        call[p].otherFails > 0 =>
            /\ call[p].outcome = "threw"
            /\ pc[p] = "done"
            /\ resp[p].status = 500
            /\ call[p].otherFails = 1
            /\ call[p].attempts = call[p].closedFails + 1
            /\ call[p].waits = call[p].closedFails

C3_Witness ==
    \E p \in Procs :
        /\ call[p].otherFails = 1
        /\ call[p].attempts = 1
        /\ call[p].retries = RetryBudget
        /\ call[p].outcome = "threw"

-----------------------------------------------------------------------------
(* Properties of the route handlers.                                       *)

Answered(p, kind) == pc[p] = "done" /\ req[p].kind = kind

Ids(rows) == {r.id : r \in rows}

\* C5: a create or update request whose contactNumber is not 10 decimal digits
\* is answered 400, and no row is inserted or modified.
C5_BadContactRejected ==
    \A p \in Procs :
        /\ (/\ req[p].kind \in {"create", "update"}
            /\ ~MatchesContact(req[p].body.contactNumber))
           => /\ bookings = loc[p].before
              /\ pc[p] = "done" => resp[p].status = 400

\* C6: a create or update request whose eventDate, or a filter request whose
\* date parameter, does not match YYYY-MM-DD is answered 400.
C6_BadDateRejected ==
    \A p \in Procs :
        (\/ /\ req[p].kind \in {"create", "update"}
            /\ ~MatchesDate(req[p].body.eventDate)
         \/ /\ req[p].kind = "filter"
            /\ req[p].query.date # Undefined
            /\ ~MatchesDate(req[p].query.date))
        => /\ pc[p] = "done"
           /\ resp[p].status = 400

AllDigits(s) == \A i \in 1..Len(s) : IsDigit(s[i])

\* the row a create request answered 201 has inserted
CreatedRow(p) ==
    {r \in bookings :
        /\ r.id = loc[p].insertId
        /\ r.id \notin Ids(loc[p].before)
        /\ r.uniqueId = Str(resp[p].bookingId)}

\* C7 as stated: the bookingId of a 201 answer is exactly 5 decimal digits whose
\* value is the id the database assigned to the inserted row.
C7_FiveDigitBookingId ==
    \A p \in Procs :
        (Answered(p, "create") /\ resp[p].status = 201) =>
            /\ Len(resp[p].bookingId) = 5
            /\ AllDigits(resp[p].bookingId)
            /\ DigitsValue(resp[p].bookingId) = loc[p].insertId
            /\ CreatedRow(p) # {}

\* C7 as amended: the bookingId of a 201 answer is the decimal form of the id
\* the database assigned to the inserted row, left-padded with zeros to at least
\* 5 digits: exactly 5 digits for an id up to 99999, the id's own 6 or more
\* digits above that.
C7_PaddedBookingId ==
    \A p \in Procs :
        (Answered(p, "create") /\ resp[p].status = 201) =>
            /\ AllDigits(resp[p].bookingId)
            /\ DigitsValue(resp[p].bookingId) = loc[p].insertId
            /\ CreatedRow(p) # {}
            /\ Len(resp[p].bookingId) >= 5
            /\ loc[p].insertId <= 99999 => Len(resp[p].bookingId) = 5
            /\ loc[p].insertId > 99999 => resp[p].bookingId[1] # "0"

C7_Witness ==
    \E p \in Procs :
        /\ Answered(p, "create")
        /\ resp[p].status = 201
        /\ loc[p].insertId = 100000
        /\ Len(resp[p].bookingId) = 6

\* the filter request of p has a well-formed date parameter and was answered
\* from the rows the database returned
DateFilterAnswered(p) ==
    /\ Answered(p, "filter")
    /\ Truthy(req[p].query.date)
    /\ MatchesDate(req[p].query.date)
    /\ resp[p].status \in {200, 404}

\* C8 as stated: a filter request with a well-formed date D returns exactly the
\* bookings whose eventDate is D, whatever branch, month and year are.
C8_DateAloneDecides ==
    \A p \in Procs :
        DateFilterAnswered(p) =>
            Ids(resp[p].rows) =
                Ids({r \in bookings : r.eventDate = req[p].query.date})

\* C8 as amended: a filter request with a well-formed date D returns exactly the
\* bookings whose eventDate is D and, when branch is present and not "All",
\* whose branch is that branch, whatever month and year are; it is answered 200
\* with these rows, or 404 when there are none.
C8_DateAndBranchDecide ==
    \A p \in Procs :
        DateFilterAnswered(p) =>
            LET q == req[p].query
                want == {r \in bookings :
                            /\ r.eventDate = q.date
                            /\ \/ ~Truthy(q.branch)
                               \/ q.branch = Str(AllChars)
                               \/ r.branch = q.branch}
            IN  /\ Ids(resp[p].rows) = Ids(want)
                /\ resp[p].status = IF want = {} THEN 404 ELSE 200

C8_Witness ==
    \E p \in Procs :
        /\ DateFilterAnswered(p)
        /\ Truthy(req[p].query.month)
        /\ Truthy(req[p].query.year)
        /\ Truthy(req[p].query.branch)
        /\ resp[p].status = 200
        /\ Cardinality(bookings) = 2
        /\ Cardinality(resp[p].rows) = 1

\* the query string ?branch=All
BranchAllQuery == [NoQuery EXCEPT !.branch = Str(AllChars)]

DeleteOfMissing(p) ==
    Answered(p, "delete") /\ req[p].id \notin Ids(loc[p].before)

-----------------------------------------------------------------------------
(* Properties of the notifications and fetch-one handlers.                 *)

SameDate(sub, got) ==
    /\ sub.t = "string"
    /\ got.t = "string"
    /\ \/ got = sub
       \/ /\ MatchesDate(sub)
          /\ got.s = SubSeq(sub.s, 9, 10) \o <<"-">> \o SubSeq(sub.s, 6, 7)
                        \o <<"-">> \o SubSeq(sub.s, 1, 4)

\* got is the submitted time sub, as given or rendered HH:MM
SameTime(sub, got) ==
    /\ sub.t = "string"
    /\ got.t = "string"
    /\ \/ got = sub
       \/ /\ MatchesTimeHM(sub) \/ MatchesTimeHMS(sub)
          /\ got.s = SubSeq(sub.s, 1, 5)

\* the fetch-one request of p asks for the booking a create request answered
\* 201 right before it, and the database has executed its query
FetchOfCreated(p) ==
    /\ Answered(p, "get")
    /\ loc[p].created # NoCreated
    /\ req[p].param = loc[p].created.bookingId
    /\ call[p].outcome = "returned"

\* C12: a create request answered 201 with bookingId B, followed with no write
\* in between by a fetch of B: the fetch is answered 200 with one booking whose
\* fields equal the submitted values, eventDate and eventTime up to their
\* rendering, and whose uniqueId is B.
C12_CreateThenFetch ==
    \A p \in Procs :
        FetchOfCreated(p) =>
            /\ resp[p].status = 200
            /\ \E r \in resp[p].rows :
                LET b == loc[p].created.body
                IN  /\ resp[p].rows = {r}
                    /\ r.uniqueId = Str(req[p].param)
                    /\ r.customerName = b.customerName
                    /\ r.contactNumber = b.contactNumber
                    /\ SameDate(b.eventDate, r.eventDate)
                    /\ SameTime(b.eventTime, r.eventTime)
                    /\ r.branch = b.branch
                    /\ r.selectedPackage = b.selectedPackage
                    /\ r.amount = b.amount
                    /\ r.celebrationType = b.celebrationType

-----------------------------------------------------------------------------
(* Properties of concurrent requests and of the pool.                      *)

\* row r holds the complete field set of update body b
RowHolds(r, b) ==
    /\ r.customerName = b.customerName
    /\ r.contactNumber = b.contactNumber
    /\ r.eventDate = b.eventDate
    /\ r.eventTime = NormalizedTime(b.eventTime)
    /\ r.branch = b.branch
    /\ r.selectedPackage = b.selectedPackage
    /\ r.amount = b.amount
    /\ r.celebrationType = b.celebrationType

\* in this step the database executes the UPDATE statement of slot p
UpdateExecutes(p) ==
    /\ pc[p] = "query"
    /\ stmt[p].sql = "update"
    /\ call'[p].outcome = "returned"

\* a step writes the row only by executing an UPDATE, which leaves the row
\* with the complete field set of its request and is answered 200
WholeRowSteps ==
    /\ \A p \in Procs :
          UpdateExecutes(p) =>
            (/\ resp'[p].status = 200
             /\ \E r \in bookings' :
                   /\ bookings' = {r}
                   /\ r.id = req[p].id
                   /\ RowHolds(r, req[p].body))
    /\ (\A p \in Procs : ~UpdateExecutes(p)) => (bookings' = bookings)

\* C13: two valid update requests for one existing booking in flight at the
\* same time: every executed UPDATE leaves the row with the complete field set
\* of its own request and is answered 200, the row changes at no other moment
\* (so that it finally holds the field set of the UPDATE executed last), and
\* once requests are answered 200 the row holds the field set of one of them,
\* never a mixture.
C13_LastUpdateWins ==
    /\ [](\A p \in Procs :
            (Answered(p, "update") /\ resp[p].status = 200)
            => \E r \in bookings :
                  /\ bookings = {r}
                  /\ r.id = RaceId
                  /\ \E q \in Procs :
                        /\ Answered(q, "update")
                        /\ resp[q].status = 200
                        /\ RowHolds(r, req[q].body))
    /\ [][WholeRowSteps]_vars

\* both requests were issued before either UPDATE was executed, the UPDATE of
\* slot 2 was executed between two attempts of slot 1, and the row holds the
\* field set of slot 1
C13_Witness ==
    /\ Answered(1, "update") /\ resp[1].status = 200
    /\ Answered(2, "update") /\ resp[2].status = 200
    /\ req[1].body = ValidBody1
    /\ req[2].body = ValidBody2
    /\ loc[1].before = loc[2].before
    /\ call[1].attempts = 2
    /\ call[2].attempts = 1
    /\ \E r \in bookings : RowHolds(r, ValidBody1)

\* the pool.query calls outstanding that queryWithRetry has issued
ExecutorQueries == Cardinality({p \in Procs : pc[p] = "query"})

\* the pool.query calls outstanding that were issued outside queryWithRetry
DirectQueries == ping.pending

\* C14: every statement reaches the pool through queryWithRetry: no pool.query
\* call issued by another component is ever outstanding or has ever settled.
C14_AllThroughExecutor ==
    /\ DirectQueries = 0
    /\ ping.log = "none"

-----------------------------------------------------------------------------
(* Properties of validation.                                               *)

\* the request of p was answered with a validation or authorization error
Rejected(p) == pc[p] = "done" /\ resp[p].status \in {400, 403}

\* C15: a create, update, filter or notifications request answered 400 or 403
\* was answered before any statement was issued: queryWithRetry was not called
\* for it, no attempt was made and the table is as the request found it.
C15_RejectedWithoutDatabase ==
    \A p \in Procs :
        Rejected(p) =>
            /\ req[p].kind \in {"create", "update", "filter", "notifications"}
            /\ stmt[p] = NoStmt
            /\ call[p] = NoCall
            /\ bookings = loc[p].before

C15_Witness ==
    \E p \in Procs :
        /\ Rejected(p)
        /\ req[p].kind = "update"
        /\ resp[p].error = "date"
        /\ req[p].id \in Ids(bookings)

-----------------------------------------------------------------------------
(* Properties of responding.                                               *)

InFlight(p) == pc[p] \in {"query", "backoff"}

\* C16: provided every pool.query call settles, every request is eventually
\* answered, and answered once: no response is sent while the request is in
\* flight, an answered request has one of the handlers' status codes, and an
\* error thrown by queryWithRetry is caught and answered 500.
C16_EveryRequestAnswered ==
    /\ \A p \in Procs :
          InFlight(p) ~> (pc[p] = "done" /\ resp[p].status # 0)
    /\ [](\A p \in Procs :
            /\ pc[p] \in {"idle", "query", "backoff", "done"}
            /\ InFlight(p) => resp[p] = NoResp
            /\ pc[p] = "done" => resp[p].status \in {200, 201, 400, 403, 404, 500}
            /\ call[p].outcome = "threw" =>
                  (pc[p] = "done" /\ resp[p].status = 500))

\* the follow-up statement of a create request has thrown and the request was
\* answered 500
C16_Witness ==
    \E p \in Procs :
        /\ Answered(p, "create")
        /\ stmt[p].sql = "setUniqueId"
        /\ call[p].outcome = "threw"
        /\ call[p].closedFails = 3
        /\ resp[p].status = 500

\* some required field of body b is absent, null or the empty string
SomeFieldAbsent(b) ==
    \E f \in BodyFields : b[f] \in {Undefined, Null, Str(<<>>)}

\* C17: a create or update request is answered 400 for missing fields exactly
\* when one of the eight required fields is absent, null or empty; a body with
\* every field present and non-null, a numeric amount of 0 included, passes the
\* required-field check.
C17_MissingExactlyWhenAbsent ==
    \A p \in Procs :
        (pc[p] = "done" /\ req[p].kind \in {"create", "update"}) =>
            ((resp[p].status = 400 /\ resp[p].error = "missing")
                <=> SomeFieldAbsent(req[p].body))

\* the id of the row a create or update request answered 201 or 200 has written
WrittenId(p) == IF req[p].kind = "create" THEN loc[p].insertId ELSE req[p].id

\* C18: for create and update alike, an eventTime HH:MM is stored as given and
\* an eventTime HH:MM:SS is stored cut to HH:MM; a request with any other
\* eventTime is answered 400 and no row is written for it.
C18_TimeForms ==
    \A p \in Procs :
        req[p].kind \in {"create", "update"} =>
            IF \/ MatchesTimeHM(req[p].body.eventTime)
               \/ MatchesTimeHMS(req[p].body.eventTime)
            THEN (pc[p] = "done" /\ resp[p].status \in {200, 201}) =>
                    \E r \in bookings :
                        /\ r.id = WrittenId(p)
                        /\ r.eventTime = NormalizedTime(req[p].body.eventTime)
            ELSE /\ pc[p] = "done"
                 /\ resp[p].status = 400
                 /\ bookings = loc[p].before

-----------------------------------------------------------------------------
(* Properties of the month / year filter.                                  *)

\* month and year values beyond those the requests of the model carry
MonthTexts ==
    {<<"0">>, <<"1">>, <<"1", "2">>, <<"1", "3">>, <<"-", "1">>, <<"x">>,
     <<"0", "4">>}
YearTexts ==
    {<<"9", "9", "9">>, <<"1", "0", "0", "0">>, <<"2", "0", "2", "5">>,
     <<"x">>, <<"-", "2", "0", "2", "5">>}

\* month parses to an integer in 1..12 and year to an integer >= 1000
ValidMonthYear(q) ==
    LET m == ParseInt(q.month)
        y == ParseInt(q.year)
    IN  ~m.nan /\ m.n >= 1 /\ m.n <= 12 /\ ~y.nan /\ y.n >= 1000

\* the rows the branch parameter of q lets through
BranchRows(q) ==
    {r \in bookings :
        \/ ~Truthy(q.branch)
        \/ q.branch = Str(AllChars)
        \/ r.branch = q.branch}

-----------------------------------------------------------------------------
(* Invariants of the bookings table.                                       *)

\* no two rows of the table have the same id
IdsDistinct == Cardinality(Ids(bookings)) = Cardinality(bookings)

\* C20 as stated: ids are pairwise distinct, and the uniqueId of every row is
\* null or the 5-digit zero-padded decimal form of the row's id.
C20_UniqueIdFiveDigits ==
    /\ IdsDistinct
    /\ \A r \in bookings :
          \/ r.uniqueId = Null
          \/ /\ r.uniqueId.t = "string"
             /\ Len(r.uniqueId.s) = 5
             /\ AllDigits(r.uniqueId.s)
             /\ DigitsValue(r.uniqueId.s) = r.id

\* a step keeps the id of every row, assigns only ids never used before, sets
\* a uniqueId only where it was null, and an executed UPDATE of the update
\* handler changes neither the ids nor any uniqueId
IdsStable ==
    /\ \A i \in Ids(bookings') \ Ids(bookings) : i = nextId /\ nextId' = nextId + 1
    /\ \A r \in bookings, s \in bookings' :
          s.id = r.id => (s.uniqueId = r.uniqueId \/ r.uniqueId = Null)
    /\ \A p \in Procs :
          UpdateExecutes(p) =>
            /\ Ids(bookings') = Ids(bookings)
            /\ \A r \in bookings, s \in bookings' :
                  s.id = r.id => s.uniqueId = r.uniqueId

\* C20 as amended: ids are pairwise distinct and never change or get reused,
\* the uniqueId of every row is null or the decimal form of the row's id
\* zero-padded to at least 5 digits (the id's own digits from 100000 on), once
\* set it stays, and update requests change neither id nor uniqueId.
C20_UniqueIdFromId ==
    /\ [](/\ IdsDistinct
          /\ \A r \in bookings :
                /\ r.id < nextId
                /\ \/ r.uniqueId = Null
                   \/ r.uniqueId = Str(PadStart(ToDecimal(r.id), PadWidth, "0")))
    /\ [][IdsStable]_vars

\* a row whose uniqueId is still null next to the row of id 100000, updated
\* by a request answered 200
C20_Witness ==
    \E p \in Procs, r, s \in bookings :
        /\ r.uniqueId = Null
        /\ s.id = 100000
        /\ s.uniqueId = Str(<<"1", "0", "0", "0", "0", "0">>)
        /\ Answered(p, "update")
        /\ req[p].id = s.id
        /\ resp[p].status = 200

-----------------------------------------------------------------------------
(* Properties of the two-step create.                                      *)

\* the INSERT of the create request of p was executed and its follow-up
\* UPDATE bookings SET uniqueId has thrown
StampFailed(p) ==
    /\ Answered(p, "create")
    /\ stmt[p].sql = "setUniqueId"
    /\ call[p].outcome = "threw"

\* in this step the database executes the INSERT statement of slot p
InsertExecutes(p) ==
    /\ pc[p] = "query"
    /\ stmt[p].sql = "insert"
    /\ stmt'[p].sql = "setUniqueId"

\* an executed INSERT adds one row, whatever rows the table holds already
InsertAddsRow ==
    \A p \in Procs :
        InsertExecutes(p) =>
            /\ Cardinality(bookings') = Cardinality(bookings) + 1
            /\ bookings \subseteq bookings'

\* C21: a create request whose INSERT succeeds and whose follow-up UPDATE of
\* uniqueId fails is answered 500 while the inserted row stays in the table
\* with a null uniqueId, nothing being deleted; every executed INSERT adds a
\* row, so creating again after such a failure leaves a second row.
C21_CreateNotAtomic ==
    /\ [](\A p \in Procs :
            StampFailed(p) =>
                /\ resp[p].status = 500
                /\ \E r \in bookings :
                      /\ r.id = loc[p].insertId
                      /\ r.uniqueId = Null
                      /\ \A f \in BodyFields : r[f] = req[p].body[f]
                      /\ bookings = loc[p].before \cup {r}
                      /\ r \notin loc[p].before)
    /\ [][InsertAddsRow]_vars

\* the create of ValidBody1 was retried after such a failure: the table holds
\* two rows of that body, the first with a null uniqueId
C21_Witness ==
    \E p \in Procs, r, s \in bookings :
        /\ Answered(p, "create")
        /\ resp[p].status = 201
        /\ req[p].body = ValidBody1
        /\ r.id + 1 = s.id
        /\ r.uniqueId = Null
        /\ s.uniqueId = Str(resp[p].bookingId)
        /\ RowHolds(r, ValidBody1)
        /\ RowHolds(s, ValidBody1)

-----------------------------------------------------------------------------
(* Properties of the filter builder.                                       *)

\* the number of '?' placeholders in a statement text
Placeholders(s) == Cardinality({i \in 1..Len(s) : s[i] = "?"})

\* the values that belong to the placeholders of fragment f for query q
ValuesFor(f, q) ==
    CASE f = "date" -> <<q.date>>
      [] f = "monthYear" -> <<Num(ParseInt(q.month).n), Num(ParseInt(q.year).n)>>
      [] f = "branch" -> <<q.branch>>

RECURSIVE ValuesInOrder(_, _)
ValuesInOrder(frags, q) ==
    IF frags = <<>> THEN <<>>
    ELSE ValuesFor(Head(frags), q) \o ValuesInOrder(Tail(frags), q)

\* every combination of present and absent date, month, year and branch
BuilderQueries ==
    {[date |-> d, month |-> m, year |-> y, branch |-> b, admin |-> Undefined] :
        d \in {Undefined, Str(Date1)},
        m \in {Undefined, Str(<<"4">>)},
        y \in {Undefined, Str(<<"2", "0", "2", "5">>)},
        b \in {Undefined, Str(Goa), Str(AllChars)}}

\* what the builder made of query q is well-formed: as many parameters as
\* placeholders, each parameter the value of its placeholder, the date or the
\* month-year fragment first and the branch fragment last
WellBuilt(q, frags, params) ==
    /\ Placeholders(FilterSqlBase \o FragsText(frags)) = Len(params)
    /\ \A i \in 1..Len(frags) :
          Placeholders(FragText(frags[i])) = Len(ValuesFor(frags[i], q))
    /\ params = ValuesInOrder(frags, q)
    /\ frags = (IF Truthy(q.date) THEN <<"date">>
                ELSE IF Truthy(q.month) /\ Truthy(q.year) THEN <<"monthYear">>
                ELSE <<>>)
               \o (IF Truthy(q.branch) /\ q.branch # Str(AllChars)
                   THEN <<"branch">> ELSE <<>>)

\* C22: for every combination of present and absent date, month, year and
\* branch that passes validation, the parameter list of the filter builder has
\* as many entries as the text has placeholders and the i-th entry is the value
\* of the i-th placeholder (date, or month then year, first; branch last); with
\* no filter the text is the base text WHERE 1=1 and the list is empty.
C22_ParamsMatchPlaceholders ==
    /\ (\A p \in Procs : req[p].kind = "none") =>
          /\ \A q \in BuilderQueries \cup FilterQueries :
                BuildFilter(q).error = "ok" =>
                    WellBuilt(q, BuildFilter(q).frags, BuildFilter(q).params)
          /\ BuildFilter(NoQuery) = [error |-> "ok", frags |-> <<>>, params |-> <<>>]
          /\ Placeholders(FilterSqlBase) = 0
          /\ SubSeq(FilterSqlBase, Len(FilterSqlBase) - 8, Len(FilterSqlBase))
                = <<"W", "H", "E", "R", "E", " ", "1", "=", "1">>
    /\ \A p \in Procs :
          stmt[p].sql = "filter" =>
              /\ WellBuilt(req[p].query, stmt[p].frags, stmt[p].params)
              /\ Placeholders(SqlText(stmt[p])) = Len(stmt[p].params)

\* a filter statement with two fragments and two parameters was executed for a
\* request that carries date, month, year and branch
C22_Witness ==
    \E p \in Procs :
        /\ Answered(p, "filter")
        /\ Truthy(req[p].query.month)
        /\ Truthy(req[p].query.date)
        /\ stmt[p].frags = <<"date", "branch">>
        /\ stmt[p].params = <<req[p].query.date, req[p].query.branch>>
        /\ resp[p].status = 200

-----------------------------------------------------------------------------
(* Properties of the process: shutdown and routing.                        *)

Signalled == proc.state # "running"

\* C23: once SIGTERM has arrived the listener no longer accepts, the hard
\* timeout is set until the process has exited, the pool is being closed as
\* soon as the listener has closed, an exit with code 0 comes after the
\* listener closed and then the pool closed, and any other exit is the forced
\* one of the timeout.
C23_GracefulShutdown ==
    Signalled =>
        /\ proc.listener # "listening"
        /\ proc.state = "closing" => proc.timer = "armed"
        /\ proc.listener = "closed" => proc.pool # "open"
        /\ proc.exit = "code0" =>
              proc.log = <<"sigterm", "listenerClosed", "poolClosed", "exit0">>
        /\ proc.state = "exited" =>
              \/ proc.exit = "code0"
              \/ /\ proc.exit = "code1"
                 /\ proc.log[Len(proc.log)] = "forceExit"
                 /\ proc.pool # "ended"

\* C26: a GET request for /api/bookings/filter is handed to the filter
\* handler, never to the fetch-one handler with id 'filter', in every source
\* file that registers both routes.
C26_FilterReachesFilterHandler ==
    (proc.route.method = "GET" /\ proc.route.path = FilterPath) =>
        /\ proc.route.handler = "filter"
        /\ proc.route.id # "filter"

-----------------------------------------------------------------------------
(* Properties of the pool and of the keep-alive timer.                     *)

\* the callers in the queue of the pool
Waiting == {conns.queue[i] : i \in 1..Len(conns.queue)}

\* the attempt of slot p ends in this step: pool.query settles
AttemptEnds(p) ==
    pc[p] = "query" /\ (call'[p] # call[p] \/ stmt'[p] # stmt[p])

\* the connection of an attempt is given back in the step the attempt ends; a
\* slot that holds one afterwards has asked again, for its next statement
ReleasedWithAttempt ==
    \A p \in Procs :
        AttemptEnds(p) =>
            /\ p \in conns.held
            /\ (p \in conns'.held \/ p \in {conns'.queue[i] : i \in 1..Len(conns'.queue)})
                  => (pc'[p] = "query" /\ stmt'[p] # stmt[p])

\* C24: a slot holds a connection only while an attempt of its statement is
\* executing, never during the backoff wait or after the answer; at most
\* connectionLimit connections are in use, and callers wait in the queue only
\* while all of them are in use; the connection is released in the step that
\* ends the attempt.
C24_ConnectionPerAttempt ==
    /\ [](/\ InUse(conns) <= ConnectionLimit
          /\ \A p \in Procs :
                /\ (p \in conns.held \/ p \in Waiting) => pc[p] = "query"
                /\ pc[p] = "query" => (p \in conns.held) # (p \in Waiting)
                /\ pc[p] = "backoff" => ~Holds(conns, p)
          /\ conns.queue # <<>> => InUse(conns) = ConnectionLimit
          /\ conns.pings <= ping.pending)
    /\ [][ReleasedWithAttempt]_vars

\* every connection is in use, by another request and by the keep-alive query,
\* and the retry of a request, its backoff wait over, waits at the head of the
\* queue for one
C24_Witness ==
    /\ InUse(conns) = ConnectionLimit
    /\ conns.queue # <<>>
    /\ \E p \in Procs :
          /\ Head(conns.queue) = p
          /\ pc[p] = "query"
          /\ call[p].waits >= 1
          /\ \E q \in conns.held : q # p
          /\ conns.pings > 0

\* the keep-alive query fails in this step
PingFailure == ping'.log = "error" /\ ping'.pending < ping.pending

\* the failure of a keep-alive query changes nothing but the record of the
\* timer and the connection the query held, which goes back to the pool as it
\* does when the query succeeds
PingFailureIsLocal ==
    PingFailure =>
        /\ UNCHANGED <<bookings, nextId, pc, req, stmt, call, loc, resp,
                       variant, proc>>
        /\ conns' = Release(conns, KeepAlive)

\* C25: the keep-alive timer can fire whatever the requests are doing; when its
\* query fails the failure is logged and nothing else happens: the process
\* keeps running, the timer fires again, and no request variable changes.
C25_PingFailureIgnored ==
    /\ [](/\ Alive
          /\ ping.pending < MaxPings => ENABLED PingTick)
    /\ [][PingFailureIsLocal]_vars

\* a keep-alive query has failed, the timer has fired again, and an update
\* request that was in flight has been answered 200
C25_Witness ==
    /\ ping.log = "error"
    /\ ping.pending > 0
    /\ \E p \in Procs : Answered(p, "update") /\ resp[p].status = 200
    /\ \E p \in Procs : pc[p] = "query"

-----------------------------------------------------------------------------
(* Properties of a create request among other requests.                    *)

\* the create request of slot p is answered 201 in this step
CreateAnswered(p) ==
    /\ pc[p] # "done"
    /\ pc'[p] = "done"
    /\ req'[p].kind = "create"
    /\ resp'[p].status = 201

\* when a create request is answered 201 the table holds the row of the new id
\* and its uniqueId is the bookingId of the answer
CreatedRowAtAnswer ==
    \A p \in Procs :
        CreateAnswered(p) =>
            \E r \in bookings' :
                /\ r.id = loc'[p].insertId
                /\ r.uniqueId = Str(resp'[p].bookingId)

\* C27: under every interleaving, at the moment a create request is answered
\* 201 with bookingId B the table contains the created row and the row's
\* uniqueId is B, also when a delete of the new id runs between the INSERT and
\* the UPDATE of uniqueId.
C27_CreatedExistsWhenAnswered == [][CreatedRowAtAnswer]_vars

-----------------------------------------------------------------------------
(* Properties of what a request may change in the table.                   *)

ReadKinds == {"list", "filter", "get", "notifications"}

\* the rows of a table whose id is not id
Others(table, id) == {r \in table : r.id # id}

\* the table changes only when a statement is executed; an update or delete
\* for id X leaves every row of another id as it was and adds no id; an update
\* for an id without a row changes nothing; a read changes nothing
OwnRowOnly ==
    /\ bookings' # bookings => \E p \in Procs : AttemptEnds(p)
    /\ \A p \in Procs :
          AttemptEnds(p) =>
              /\ req[p].kind \in {"update", "delete"} =>
                    /\ Others(bookings', req[p].id) = Others(bookings, req[p].id)
                    /\ Ids(bookings') \subseteq Ids(bookings)
              /\ (req[p].kind = "update" /\ req[p].id \notin Ids(bookings)) =>
                    bookings' = bookings
              /\ req[p].kind \in ReadKinds => bookings' = bookings

\* the update request of p names an id that had no row
UpdateOfMissing(p) ==
    Answered(p, "update") /\ req[p].id \notin Ids(loc[p].before)

\* C28 as stated: an update or delete for id X changes at most the row of id X,
\* an update for an id without a row is answered 404 and creates and changes no
\* row, and a read request never changes the table.
C28_UpdateMissingIs404 ==
    /\ [](\A p \in Procs :
            UpdateOfMissing(p) =>
                /\ resp[p].status = 404
                /\ bookings = loc[p].before)
    /\ [][OwnRowOnly]_vars

\* C28 as amended: an update or delete for id X changes at most the row of id
\* X, an update for an id without a row creates and changes no row and is
\* answered 400 when its body fails validation, 404 when the body is valid and
\* the database executes the UPDATE, and 500 when the database call fails; it
\* is never answered 200; a read request never changes the table.
C28_OwnRowOnly ==
    /\ [](\A p \in Procs :
            UpdateOfMissing(p) =>
                /\ resp[p].status \in {400, 404, 500}
                /\ resp[p].status = 400 <=> UpdateRejects(req[p].body) # "ok"
                /\ resp[p].status = 404 <=> call[p].outcome = "returned"
                /\ resp[p].status = 500 <=> call[p].outcome = "threw"
                /\ bookings = loc[p].before)
    /\ [][OwnRowOnly]_vars

\* the table holds two bookings; an update for the id of one of them was
\* executed and answered 200, and the other booking is as it was
C28_Witness ==
    \E p \in Procs :
        /\ Answered(p, "update")
        /\ resp[p].status = 200
        /\ Cardinality(bookings) = 2
        /\ Cardinality(loc[p].before) = 2
        /\ bookings # loc[p].before
        /\ Others(bookings, req[p].id) = Others(loc[p].before, req[p].id)

====
